---- MODULE Spec2Model ----
(***************************************************************************)
(* State-machine model of the auto-posting bot in src/bot/bot.py:          *)
(* the post store, the publish scheduler thread, and the per-user          *)
(* conversation state machine driven by the foreground update loop.        *)
(*                                                                         *)
(* Values.  A datetime is a record [ord, hour, minute, sub]: ord is the    *)
(* proleptic Gregorian ordinal of its date (date.toordinal()), sub is the  *)
(* part below the minute (seconds and microseconds; 0 = exactly on the     *)
(* minute).  A stored scheduled_time is TEXT: the record                   *)
(* [kind, y, m, d, hh, mm, ss], kind "iso" for a string isoformat() wrote, *)
(* and another kind for a value fromisoformat() cannot read.               *)
(***************************************************************************)
EXTENDS Integers, Sequences, FiniteSets, TLC

VARIABLES
    now,                \* the wall clock, datetime.datetime.now()
    posts,              \* table posts: id -> row
    nextId,             \* AUTOINCREMENT counter of table posts
    authorized,         \* table authorized_users: set of user ids
    user_states,        \* self.user_states: user id -> session (or NoSession)
    scheduler_running,  \* self.scheduler_running
    spc,                \* position of the scheduler thread
    tickNow,            \* local `now` of _check_and_publish_posts
    snapshot,           \* local `posts` of the tick: the rows get_posts() returned
    qi,                 \* index in snapshot of the row the for loop is at
    current_time,       \* argument of a call of _get_next_weekday
    next_time,          \* what that call returned
    attempted,          \* history: ids a publish was attempted for in this tick
    published,          \* history: ids whose publish returned ok in this tick
    tickStore,          \* history: the table as the tick's get_posts() read it
    failed,             \* history: ids whose latest publish attempt failed
    timers,             \* started threading.Timer threads: <<chat, user>> to refresh
    lost,               \* history: rows sent whose write-back a crash prevented
    sent,               \* history: ids of the one-time posts that have been sent successfully
    old_loops,          \* positions of the loop threads of earlier start_scheduler calls
    picker_args,        \* arguments of a call of generate_time_picker: <<hour, minute>>
    keyboard,           \* what that call returned
    ev                  \* history: the last step taken and what it observed

vars == <<now, posts, nextId, authorized, user_states, scheduler_running,
          spc, tickNow, snapshot, qi, current_time, next_time,
          attempted, published, tickStore, failed, timers, lost,
          picker_args, keyboard, old_loops, sent, ev>>

-----------------------------------------------------------------------------
(* Bounds of the model *)

\* days the wall clock can run through, counted from the first day
MaxClockDays == 1
\* rows of the posts table at start-up (left by earlier runs)
MaxInitPosts == 3
\* posts the wizard can add in one run
MaxNewPosts == 1
\* loop threads of earlier start_scheduler calls that can be alive at once
MaxOldLoops == 2

\* the part of an instant below the minute: 0 = exactly on the minute,
\* 1 = some seconds or microseconds after it
Subs == {0, 1}

-----------------------------------------------------------------------------
(* Calendar arithmetic of datetime.date *)

IsLeap(y) == (y % 4 = 0) /\ ((y % 100 # 0) \/ (y % 400 = 0))

DaysInMonth(y, m) ==
    IF m = 2 THEN (IF IsLeap(y) THEN 29 ELSE 28)
    ELSE IF m \in {4, 6, 9, 11} THEN 30 ELSE 31

RECURSIVE DaysBeforeMonth(_, _)
DaysBeforeMonth(y, m) ==
    IF m <= 1 THEN 0 ELSE DaysBeforeMonth(y, m - 1) + DaysInMonth(y, m - 1)

DaysBeforeYear(y) ==
    LET p == y - 1 IN p * 365 + (p \div 4) - (p \div 100) + (p \div 400)

\* date(y, m, d).toordinal()
Ordinal(y, m, d) == DaysBeforeYear(y) + DaysBeforeMonth(y, m) + d

\* the years the model's dates lie in
Years == 2025..2027

\* date.fromordinal(n) as <<year, month, day>>
FromOrdinal(n) ==
    LET y == CHOOSE yy \in Years :
                 DaysBeforeYear(yy) < n /\ n <= DaysBeforeYear(yy + 1)
        r == n - DaysBeforeYear(y)
        m == CHOOSE mm \in 1..12 :
                 DaysBeforeMonth(y, mm) < r
                 /\ r <= DaysBeforeMonth(y, mm) + DaysInMonth(y, mm)
    IN  <<y, m, r - DaysBeforeMonth(y, m)>>

\* datetime.weekday(): Monday = 0 ... Sunday = 6
Weekday(t) == (t.ord + 6) % 7

Dt(y, m, d, h, mi, s) ==
    [ord |-> Ordinal(y, m, d), hour |-> h, minute |-> mi, sub |-> s]

\* t + datetime.timedelta(days=n)
AddDays(t, n) == [t EXCEPT !.ord = @ + n]

\* no datetime (a local that is not bound)
NoTime == [ord |-> 0, hour |-> 0, minute |-> 0, sub |-> 0]

\* datetime comparison a < b
DtLess(a, b) ==
    \/ a.ord < b.ord
    \/ /\ a.ord = b.ord
       /\ \/ a.hour < b.hour
          \/ /\ a.hour = b.hour
             /\ \/ a.minute < b.minute
                \/ a.minute = b.minute /\ a.sub < b.sub

DtLeq(a, b) == a = b \/ DtLess(a, b)

-----------------------------------------------------------------------------
(* Text forms *)

\* a variant that leaves the fraction of the second out of the text
IsoFormat_NoMicroseconds(t) ==
    LET ymd == FromOrdinal(t.ord)
    IN  [kind |-> "iso", y |-> ymd[1], m |-> ymd[2], d |-> ymd[3],
         hh |-> t.hour, mm |-> t.minute, ss |-> 0]

\* datetime.isoformat(): 'YYYY-MM-DDTHH:MM:SS[.ffffff]'
IsoFormat(t) ==
    LET ymd == FromOrdinal(t.ord)
    IN  [kind |-> "iso", y |-> ymd[1], m |-> ymd[2], d |-> ymd[3],
         hh |-> t.hour, mm |-> t.minute, ss |-> t.sub]

\* a stored value that is no ISO timestamp; pos places it in the text order
BadText(k, pos) ==
    [kind |-> k, y |-> pos, m |-> 0, d |-> 0, hh |-> 0, mm |-> 0, ss |-> 0]

\* isinstance(value, str)
IsStr(s) == s.kind # "bytes"

\* datetime.fromisoformat(s) returns (does not raise ValueError)
Parseable(s) ==
    /\ s.kind = "iso"
    /\ s.m \in 1..12
    /\ s.d \in 1..DaysInMonth(s.y, s.m)
    /\ s.hh \in 0..23
    /\ s.mm \in 0..59

\* datetime.fromisoformat(s), for a parseable s
FromIsoFormat(s) == Dt(s.y, s.m, s.d, s.hh, s.mm, s.ss)

\* the order of ORDER BY scheduled_time: a < b as stored values
TextLess(a, b) ==
    \/ a.y < b.y
    \/ /\ a.y = b.y
       /\ \/ a.m < b.m
          \/ /\ a.m = b.m
             /\ \/ a.d < b.d
                \/ /\ a.d = b.d
                   /\ \/ a.hh < b.hh
                      \/ /\ a.hh = b.hh
                         /\ \/ a.mm < b.mm
                            \/ a.mm = b.mm /\ a.ss < b.ss

\* f"{year}-{month:02d}-{day:02d}"
DateText(y, m, d) == [y |-> y, m |-> m, d |-> d]

\* datetime.strptime(s, '%Y-%m-%d').replace(hour=h, minute=mi)
CombineDateTime(s, h, mi) == Dt(s.y, s.m, s.d, h, mi, 0)

-----------------------------------------------------------------------------
(* Next-weekday recurrence *)

\* a variant that steps over Sunday only
SkipWeekend_SundayOnly(t) == IF Weekday(t) >= 6 THEN AddDays(t, 1) ELSE t

RECURSIVE SkipWeekend(_)
\* while next_time.weekday() >= 5: next_time += timedelta(days=1)
SkipWeekend(t) == IF Weekday(t) >= 5 THEN SkipWeekend(AddDays(t, 1)) ELSE t

\* a variant that keeps a weekday as it is
GetNextWeekday_SameDay(t) == SkipWeekend(t)

\* _get_next_weekday
GetNextWeekday(t) == SkipWeekend(AddDays(t, 1))

-----------------------------------------------------------------------------
(* Post store *)

NoText == BadText("absent", 0)

\* a row of table posts (without its id)
Row(content, photo_data, photo_filename, scheduled_time, is_recurring, is_posted) ==
    [content |-> content, photo_data |-> photo_data,
     photo_filename |-> photo_filename, scheduled_time |-> scheduled_time,
     is_recurring |-> is_recurring, is_posted |-> is_posted]

NoPost == [id |-> 0] @@ Row("", "None", "None", NoText, FALSE, FALSE)

\* the empty table
NoStore == [i \in {} |-> NoPost]

\* the dict get_posts() builds for row id of table store
PostDict(store, id) == [id |-> id] @@ store[id]

\* a variant of a query without ORDER BY: the rows in any order
OrderedBy_Unordered(store, S) ==
    {s \in [1..Cardinality(S) -> S] :
        \A i, j \in 1..Cardinality(S) : i # j => s[i] # s[j]}

\* all orders of the ids in S that ORDER BY scheduled_time can return
\* (rows with equal scheduled_time come in either order)
OrderedBy(store, S) ==
    {s \in [1..Cardinality(S) -> S] :
        /\ \A i, j \in 1..Cardinality(S) : i # j => s[i] # s[j]
        /\ \A i, j \in 1..Cardinality(S) :
              i < j => ~TextLess(store[s[j]].scheduled_time,
                                 store[s[i]].scheduled_time)}

\* a variant whose query has no WHERE is_posted = 0
GetPosts_NoFilter(store, include_posted) ==
    LET S == DOMAIN store
    IN  {[k \in 1..Cardinality(S) |-> PostDict(store, s[k])] : s \in OrderedBy(store, S)}

\* get_posts(include_posted): the lists the query can return
GetPosts(store, include_posted) ==
    LET S == {i \in DOMAIN store : include_posted \/ ~store[i].is_posted}
    IN  {[k \in 1..Cardinality(S) |-> PostDict(store, s[k])] : s \in OrderedBy(store, S)}

\* add_post: the table after the INSERT (is_posted defaults to 0)
AddPost(store, id, content, photo_data, photo_filename, scheduled_time, is_recurring) ==
    (id :> Row(content, photo_data, photo_filename, scheduled_time,
               is_recurring, FALSE)) @@ store

\* delete_post: the table after the DELETE
DeletePost(store, id) == [i \in DOMAIN store \ {id} |-> store[i]]

\* update_post(post_id, **fields): the table after the UPDATE
UpdatePost(store, id, fields) ==
    IF id \in DOMAIN store THEN [store EXCEPT ![id] = fields @@ @] ELSE store

\* a variant that removes a one-time post once it is published
MarkPostAsPosted_Deletes(store, id) == DeletePost(store, id)

\* mark_post_as_posted
\* a variant that writes nothing
MarkPostAsPosted_Noop(store, id) == store

MarkPostAsPosted(store, id) == UpdatePost(store, id, [is_posted |-> TRUE])

-----------------------------------------------------------------------------
(* User sessions: the values of self.user_states *)

Users == {"u1", "u2"}

\* private chats and groups/channels (chat ids starting with '-')
Chats == {"private", "group"}

NoDate == DateText(0, 0, 0)

\* a session; has_post_data says whether the dict has the key 'post_data',
\* "<absent>" / "None" / NoDate / NoText that post_data lacks the key
Session(state, has_post_data, content, photo_data, photo_filename, selected_date, scheduled_time) ==
    [state |-> state, has_post_data |-> has_post_data, content |-> content,
     photo_data |-> photo_data, photo_filename |-> photo_filename,
     selected_date |-> selected_date, scheduled_time |-> scheduled_time]

\* no entry in user_states
NoSession == Session("none", FALSE, "<absent>", "None", "None", NoDate, NoText)

\* {'state': 'waiting_for_password', 'user_info': ...}
PasswordSession ==
    Session("waiting_for_password", FALSE, "<absent>", "None", "None", NoDate, NoText)

\* {'state': 'waiting_for_content', 'post_data': {}}
NewSession ==
    Session("waiting_for_content", TRUE, "<absent>", "None", "None", NoDate, NoText)

-----------------------------------------------------------------------------
(* The last step, as the properties below read it *)

NoArg == [y |-> 0, m |-> 0, d |-> 0, h |-> 0, mi |-> 0, text |-> ""]

\* a scheduler step: the row it is about, the outcome, the table before it
Ev(type, user, id, post, ok, reply, before) ==
    [type |-> type, user |-> user, id |-> id, post |-> post, ok |-> ok,
     reply |-> reply, before |-> before, sess |-> NoSession, arg |-> NoArg,
     chat |-> ""]

-----------------------------------------------------------------------------
(* Publish scheduler thread *)

\* a variant that sends a photo only when there is a caption to go with it
Delivery_NeedsCaption(post) ==
    IF post.photo_data # "None" /\ post.content # "" THEN "photo_caption"
    ELSE "text_only"

\* the delivery _publish_post chooses for a row
Delivery(post) ==
    IF post.photo_data # "None" /\ post.content # "" THEN "photo_caption"
    ELSE IF post.photo_data # "None" THEN "photo_only"
    ELSE "text_only"

\* a variant that computes the next occurrence from the clock
WriteBack_FromNow(store, post) ==
    IF post.is_recurring
    THEN UpdatePost(store, post.id,
             [scheduled_time |-> IsoFormat(GetNextWeekday(now)),
              is_posted |-> FALSE])
    ELSE MarkPostAsPosted(store, post.id)

\* the write-back of _publish_post after result.get('ok')
WriteBack(store, post) ==
    IF post.is_recurring
    THEN UpdatePost(store, post.id,
             [scheduled_time |->
                  IsoFormat(GetNextWeekday(FromIsoFormat(post.scheduled_time))),
              is_posted |-> FALSE])
    ELSE MarkPostAsPosted(store, post.id)

\* a variant that gives up on a post after one failed attempt
IsDue_NoRetry(post, at) ==
    DtLeq(FromIsoFormat(post.scheduled_time), at) /\ post.id \notin failed

\* a variant with a strict comparison
IsDue_Strict(post, at) == DtLess(FromIsoFormat(post.scheduled_time), at)

\* `scheduled_time <= now` in _check_and_publish_posts
IsDue(post, at) == DtLeq(FromIsoFormat(post.scheduled_time), at)

SchedUnchanged ==
    UNCHANGED <<now, nextId, authorized, user_states, current_time, next_time,
                timers, lost, picker_args, keyboard, old_loops, sent>>

\* start_scheduler (called by run())
StartScheduler ==
    /\ ~scheduler_running
    /\ spc = "none"
    /\ scheduler_running' = TRUE
    /\ spc' = "loop"
    /\ ev' = Ev("start_scheduler", "", 0, NoPost, TRUE, "", NoStore)
    /\ UNCHANGED <<posts, tickNow, snapshot, qi, attempted, published, tickStore, failed>>
    /\ SchedUnchanged

\* start_scheduler while the flag is set: `if self.scheduler_running: return`
StartSchedulerAgain ==
    /\ scheduler_running
    /\ ev' = Ev("start_ignored", "", 0, NoPost, FALSE, "", NoStore)
    /\ UNCHANGED <<posts, scheduler_running, spc, tickNow, snapshot, qi, attempted,
                   published, tickStore, failed>>
    /\ SchedUnchanged

\* the loop thread is alive at this position
Alive(pos) == pos \notin {"none", "exited", "killed"}

\* the loop thread is inside _check_and_publish_posts
InTickAt(pos) == pos \in {"tick", "eval", "send", "writeback"}

\* start_scheduler after stop_scheduler: the flag is clear, so it is set and a
\* new thread is started; scheduler_thread is overwritten, and the thread of
\* the earlier start goes on wherever it is: asleep in time.sleep or inside a
\* tick, it has outlasted the 5 seconds of the join of stop_scheduler (a thread
\* that was about to test the flag has ended within them)
RestartScheduler ==
    /\ ~scheduler_running
    /\ spc # "none"
    /\ Len(old_loops) < MaxOldLoops
    /\ scheduler_running' = TRUE
    /\ old_loops' = IF Alive(spc) /\ spc # "loop"
                    THEN Append(old_loops, spc) ELSE old_loops
    /\ spc' = "loop"
    /\ qi' = 0
    /\ snapshot' = <<>>
    /\ ev' = Ev("start_scheduler", "", 0, NoPost, TRUE, "restart", NoStore)
    /\ UNCHANGED <<posts, tickNow, attempted, published, tickStore, failed>>
    /\ UNCHANGED <<now, nextId, authorized, user_states, current_time, next_time,
                   timers, lost, picker_args, keyboard, sent>>

\* the sequence without its i-th element
RemoveAt(seq, i) == SubSeq(seq, 1, i - 1) \o SubSeq(seq, i + 1, Len(seq))

\* a step of the loop thread of an earlier start, over a table without
\* unposted posts: the `while self.scheduler_running` test, from which the
\* thread enters a tick or ends; or a tick that finds nothing and sleeps
OldLoopStep ==
    /\ GetPosts(posts, FALSE) = {<<>>}
    /\ \E i \in 1..Len(old_loops) :
         IF InTickAt(old_loops[i])
         THEN /\ old_loops' = [old_loops EXCEPT ![i] = "sleep"]
              /\ ev' = Ev("old_tick_end", "", i, NoPost, TRUE, "", NoStore)
         ELSE /\ old_loops' = IF scheduler_running
                                THEN [old_loops EXCEPT ![i] = "tick"]
                                ELSE RemoveAt(old_loops, i)
              /\ ev' = Ev("old_loop_test", "", i, NoPost, scheduler_running, "", NoStore)
    /\ UNCHANGED <<posts, scheduler_running, spc, tickNow, snapshot, qi, attempted,
                   published, tickStore, failed>>
    /\ UNCHANGED <<now, nextId, authorized, user_states, current_time, next_time,
                   timers, lost, picker_args, keyboard, sent>>

\* stop_scheduler (called once, by the finally of run()): the flag is
\* cleared; join(timeout=5) waits for the thread and cancels nothing
StopScheduler ==
    /\ scheduler_running
    /\ spc # "none"
    /\ scheduler_running' = FALSE
    /\ ev' = Ev("stop_scheduler", "", 0, NoPost, TRUE, "", NoStore)
    /\ UNCHANGED <<posts, spc, tickNow, snapshot, qi, attempted, published,
                   tickStore, failed>>
    /\ SchedUnchanged

\* run() and main() return after stop_scheduler: the join has ended because
\* the thread finished or because its 5 seconds passed, and the interpreter
\* exits without waiting for a daemon thread that is still alive
ProcessExit ==
    /\ ~scheduler_running
    /\ spc \notin {"none", "exited", "killed"}
    /\ spc' = "killed"
    /\ ev' = Ev("process_exit", "", 0, NoPost, TRUE, "", NoStore)
    /\ UNCHANGED <<posts, scheduler_running, tickNow, snapshot, qi, attempted,
                   published, tickStore, failed>>
    /\ SchedUnchanged

\* _scheduler_loop: the test of `while self.scheduler_running`
SchedLoopTest ==
    /\ spc \in {"loop", "sleep", "backoff"}
    /\ spc' = IF scheduler_running THEN "tick" ELSE "exited"
    /\ ev' = Ev("loop_test", "", 0, NoPost, scheduler_running,
                IF spc = "backoff" THEN "after_error" ELSE "", NoStore)
    /\ UNCHANGED <<posts, scheduler_running, tickNow, snapshot, qi, attempted,
                   published, tickStore, failed>>
    /\ SchedUnchanged

\* a variant in which the exception leaves _scheduler_loop
SchedFault_EndsLoop ==
    /\ spc = "tick"
    /\ spc' = "exited"
    /\ ev' = Ev("sched_error", "", 0, NoPost, FALSE, "", NoStore)
    /\ UNCHANGED <<posts, scheduler_running, tickNow, snapshot, qi, attempted,
                   published, tickStore, failed>>
    /\ SchedUnchanged

\* self.get_posts() raises in _check_and_publish_posts: the exception reaches
\* `except Exception` of _scheduler_loop, which prints it and sleeps 60 seconds
SchedFault ==
    /\ spc = "tick"
    /\ spc' = "backoff"
    /\ ev' = Ev("sched_error", "", 0, NoPost, FALSE, "", NoStore)
    /\ UNCHANGED <<posts, scheduler_running, tickNow, snapshot, qi, attempted,
                   published, tickStore, failed>>
    /\ SchedUnchanged

\* _check_and_publish_posts: now = datetime.now(); posts = self.get_posts()
SchedTick ==
    /\ spc = "tick"
    /\ tickNow' = now
    /\ \E q \in GetPosts(posts, FALSE) : snapshot' = q
    /\ qi' = 1
    /\ attempted' = {}
    /\ published' = {}
    /\ tickStore' = posts
    /\ spc' = "eval"
    /\ ev' = Ev("tick_start", "", 0, NoPost, TRUE, "", NoStore)
    /\ UNCHANGED <<posts, scheduler_running, failed>>
    /\ SchedUnchanged

\* a variant without the isinstance test
EvalOutcome_NoTypeCheck(post, at) ==
    IF ~IsStr(post.scheduled_time) THEN "due"
    ELSE IF ~Parseable(post.scheduled_time) THEN "skip_parse"
    ELSE IF IsDue(post, at) THEN "due"
    ELSE "not_due"

\* the body of `for post in posts`: the isinstance test, fromisoformat under
\* `except Exception`, and the due test
EvalOutcome(post, at) ==
    IF ~IsStr(post.scheduled_time) THEN "skip_type"
    ELSE IF ~Parseable(post.scheduled_time) THEN "skip_parse"
    ELSE IF IsDue(post, at) THEN "due"
    ELSE "not_due"

\* one turn of `for post in posts`
SchedEval ==
    /\ spc = "eval"
    /\ qi <= Len(snapshot)
    /\ LET post == snapshot[qi]
           outcome == EvalOutcome(post, tickNow)
       IN  /\ ev' = Ev(outcome, "", post.id, post, outcome = "due", "", NoStore)
           /\ IF outcome = "due"
              THEN /\ spc' = "send"
                   /\ attempted' = attempted \cup {post.id}
                   /\ UNCHANGED qi
              ELSE /\ qi' = qi + 1
                   /\ UNCHANGED <<spc, attempted>>
    /\ UNCHANGED <<posts, scheduler_running, tickNow, snapshot, published,
                   tickStore, failed>>
    /\ SchedUnchanged

\* _publish_post: the send_photo / send_message call returns
SchedSend(ok) ==
    /\ spc = "send"
    /\ LET post == snapshot[qi] IN
         /\ ev' = Ev("publish", "", post.id, post, ok, Delivery(post), posts)
         /\ IF ok THEN /\ spc' = "writeback"
                       /\ published' = published \cup {post.id}
                       /\ failed' = failed \ {post.id}
                       /\ UNCHANGED qi
                  ELSE /\ spc' = "eval"
                       /\ qi' = qi + 1
                       /\ failed' = failed \cup {post.id}
                       /\ UNCHANGED published
         /\ sent' = IF ok /\ ~post.is_recurring THEN sent \cup {post.id} ELSE sent
    /\ UNCHANGED <<posts, scheduler_running, tickNow, snapshot, attempted, tickStore>>
    /\ UNCHANGED <<now, nextId, authorized, user_states, current_time, next_time,
                   timers, lost, picker_args, keyboard, old_loops>>

\* _publish_post: the update after a successful send
SchedWriteBack ==
    /\ spc = "writeback"
    /\ LET post == snapshot[qi] IN
         /\ posts' = WriteBack(posts, post)
         /\ ev' = Ev("writeback", "", post.id, post, TRUE, "", posts)
         /\ lost' = {row \in lost : row.id # post.id}
    /\ qi' = qi + 1
    /\ spc' = "eval"
    /\ UNCHANGED <<scheduler_running, tickNow, snapshot, attempted, published,
                   tickStore, failed>>
    /\ UNCHANGED <<now, nextId, authorized, user_states, current_time, next_time,
                   timers, picker_args, keyboard, old_loops, sent>>

\* what the `except Exception` of the reschedule can leave behind
FaultOutcomes == {"compute_raised", "commit_raised", "fallback_raised"}

\* a variant whose except branch clears the posted flag
WriteBackFault_LeavesUnposted(store, post, outcome) ==
    IF outcome = "fallback_raised" THEN store
    ELSE UpdatePost(store, post.id, [is_posted |-> FALSE])

\* the reschedule of a recurring post raises.  compute_raised: fromisoformat,
\* _get_next_weekday or the execute of update_post raised, nothing is written,
\* and mark_post_as_posted succeeds.  commit_raised: the execute of update_post
\* ran and its commit raised; the commit of mark_post_as_posted, on the same
\* connection, stores both updates.  fallback_raised: mark_post_as_posted
\* raises as well and the outer `except Exception` of _publish_post prints it
WriteBackFault(store, post, outcome) ==
    IF outcome = "fallback_raised" THEN store
    ELSE IF outcome = "commit_raised"
    THEN UpdatePost(store, post.id,
             [scheduled_time |->
                  IsoFormat(GetNextWeekday(FromIsoFormat(post.scheduled_time))),
              is_posted |-> TRUE])
    ELSE MarkPostAsPosted(store, post.id)

\* _publish_post after a successful send of a recurring post, when the
\* reschedule raises
SchedWriteBackFault ==
    /\ spc = "writeback"
    /\ snapshot[qi].is_recurring
    /\ \E outcome \in FaultOutcomes :
         LET post == snapshot[qi] IN
           /\ posts' = WriteBackFault(posts, post, outcome)
           /\ ev' = Ev("writeback_error", "", post.id, post,
                       outcome # "fallback_raised", outcome, posts)
    /\ lost' = lost
    /\ qi' = qi + 1
    /\ spc' = "eval"
    /\ UNCHANGED <<scheduler_running, tickNow, snapshot, attempted, published,
                   tickStore, failed>>
    /\ UNCHANGED <<now, nextId, authorized, user_states, current_time, next_time,
                   timers, picker_args, keyboard, old_loops, sent>>

\* the for loop is exhausted: time.sleep(30), then `while self.scheduler_running`
SchedEndTick ==
    /\ spc = "eval"
    /\ qi > Len(snapshot)
    /\ spc' = "sleep"
    /\ ev' = Ev("tick_end", "", 0, NoPost, TRUE, "", NoStore)
    /\ UNCHANGED <<posts, scheduler_running, tickNow, snapshot, qi, attempted,
                   published, tickStore, failed>>
    /\ SchedUnchanged

\* a variant in which the process dies only once the write-back is stored
Crash_AfterWriteBack ==
    /\ spc = "writeback"
    /\ lost = {}
    /\ LET post == snapshot[qi] IN
         /\ lost' = lost \cup {post}
         /\ posts' = WriteBack(posts, post)
         /\ ev' = Ev("crash", "", post.id, post, TRUE, "", posts)
    /\ scheduler_running' = FALSE
    /\ spc' = "none"
    /\ tickNow' = NoTime
    /\ snapshot' = <<>>
    /\ qi' = 0
    /\ attempted' = {}
    /\ published' = {}
    /\ tickStore' = NoStore
    /\ user_states' = [u \in Users |-> NoSession]
    /\ timers' = {}
    /\ UNCHANGED <<now, nextId, authorized, current_time, next_time, failed,
                   picker_args, keyboard, old_loops, sent>>

\* _publish_post: the process dies after the send returned ok and before
\* update_post / mark_post_as_posted is committed, and is started again: the
\* object is constructed anew over the same bot_posts.db.  The next crash
\* comes after the row of this one has been handled.
Crash ==
    /\ spc = "writeback"
    /\ lost = {}
    /\ LET post == snapshot[qi] IN
         /\ lost' = lost \cup {post}
         /\ ev' = Ev("crash", "", post.id, post, TRUE, "", posts)
    /\ posts' = posts
    /\ scheduler_running' = FALSE
    /\ spc' = "none"
    /\ tickNow' = NoTime
    /\ snapshot' = <<>>
    /\ qi' = 0
    /\ attempted' = {}
    /\ published' = {}
    /\ tickStore' = NoStore
    /\ user_states' = [u \in Users |-> NoSession]
    /\ timers' = {}
    /\ UNCHANGED <<now, nextId, authorized, current_time, next_time, failed,
                   picker_args, keyboard, old_loops, sent>>

-----------------------------------------------------------------------------
(* Inbound message texts *)

\* the message texts the model sends; "" is the text of a photo message
Texts == {"", "YES", " Skip ", "/add", "/list"}

\* the texts typed at the recurrence step
RecurTexts == {"", "YES", "y", " Daily", "repeat ", "no", "yes please"}

\* a variant that lower-cases without trimming: text.lower()
Norm_NoStrip(text) ==
    CASE text = " Skip " -> " skip "
      [] text = "YES" -> "yes"
      [] text = " Daily" -> " daily"
      [] OTHER -> text

\* text.lower().strip()
Norm(text) ==
    CASE text = " Skip " -> "skip"
      [] text = "YES" -> "yes"
      [] text = " Daily" -> "daily"
      [] text = "repeat " -> "repeat"
      [] OTHER -> text

\* text.strip()
Strip(text) ==
    CASE text = " Skip " -> "Skip"
      [] text = " Daily" -> "Daily"
      [] text = "repeat " -> "repeat"
      [] OTHER -> text

\* message_text.startswith('/')
IsCommand(text) == text \in {"/add", "/list", "/start", "/help"}

\* a message: <<text, photo_data, photo_filename>>
Messages ==
    {<<t, "None", "None">> : t \in Texts} \cup {<<"", "img", "file_7.jpg">>}

-----------------------------------------------------------------------------
(* Foreground handlers.  Each is the state its call leaves:                *)
(* [us, posts, nextId, auth] with the reply it sends and whether it        *)
(* accepted the event.                                                     *)

Res(us, store, nid, auth, ok, reply) ==
    [us |-> us, posts |-> store, nextId |-> nid, auth |-> auth, ok |-> ok,
     reply |-> reply]

\* a handler that changes nothing
Stay(ok, reply) == Res(user_states, posts, nextId, authorized, ok, reply)

\* a handler that only replaces the user's session
SetSession(u, sess, reply) ==
    Res([user_states EXCEPT ![u] = sess], posts, nextId, authorized, TRUE, reply)

\* _handle_unauthorized_user
HandleUnauthorizedUser(u, chat) ==
    IF chat # "group" THEN SetSession(u, PasswordSession, "ask_password")
    ELSE Stay(FALSE, "silent")

\* a variant that keeps a session the user already has
StartAddPostFlow_KeepsExisting(u, chat) ==
    IF chat = "group" THEN Stay(FALSE, "silent")
    ELSE IF user_states[u] # NoSession THEN Stay(TRUE, "ask_content")
    ELSE SetSession(u, NewSession, "ask_content")

\* start_add_post_flow
StartAddPostFlow(u, chat) ==
    IF chat = "group" THEN Stay(FALSE, "silent")
    ELSE SetSession(u, NewSession, "ask_content")

\* show_posts_list: sends the list, changes nothing
ShowPostsList(u, chat) ==
    IF chat = "group" THEN Stay(FALSE, "silent") ELSE Stay(TRUE, "posts_list")

\* process_command
ProcessCommand(u, chat, command) ==
    IF chat = "group" THEN Stay(FALSE, "silent")
    ELSE IF u \notin authorized THEN HandleUnauthorizedUser(u, chat)
    ELSE IF command = "/add" THEN StartAddPostFlow(u, chat)
    ELSE IF command = "/list" THEN ShowPostsList(u, chat)
    ELSE Stay(TRUE, "info")

\* the fallback of `from config import ACCESS_PASSWORD`
AccessPassword == "totoncha"

\* _handle_password_attempt
HandlePasswordAttempt(u, text) ==
    IF Strip(text) = AccessPassword
    THEN Res([user_states EXCEPT ![u] = NoSession], posts, nextId,
             authorized \cup {u}, TRUE, "access_granted")
    ELSE Stay(FALSE, "incorrect_password")

\* finish_add_post
\* a variant whose validation accepts any content that was set, "" included
FinishAddPost_ContentSet(u, chat, is_recurring) ==
    LET st == user_states[u]
        has_content == st.content # "<absent>"
        has_photo == st.photo_data # "None"
    IN  IF st = NoSession THEN Stay(FALSE, "none")
        ELSE IF ~st.has_post_data THEN Stay(FALSE, "exception")
        ELSE IF ~has_content /\ ~has_photo THEN Stay(FALSE, "error_empty_post")
        ELSE IF st.scheduled_time = NoText THEN Stay(FALSE, "error_saving")
        ELSE Res([user_states EXCEPT ![u] = NoSession],
                 AddPost(posts, nextId,
                         IF st.content = "<absent>" THEN "" ELSE st.content,
                         st.photo_data, st.photo_filename, st.scheduled_time,
                         is_recurring),
                 nextId + 1, authorized, TRUE, "post_created")

\* a variant without the validation
FinishAddPost_NoValidation(u, chat, is_recurring) ==
    LET st == user_states[u]
    IN  IF st = NoSession THEN Stay(FALSE, "none")
        ELSE IF ~st.has_post_data THEN Stay(FALSE, "exception")
        ELSE IF st.scheduled_time = NoText THEN Stay(FALSE, "error_saving")
        ELSE Res([user_states EXCEPT ![u] = NoSession],
                 AddPost(posts, nextId,
                         IF st.content = "<absent>" THEN "" ELSE st.content,
                         st.photo_data, st.photo_filename, st.scheduled_time,
                         is_recurring),
                 nextId + 1, authorized, TRUE, "post_created")

FinishAddPost(u, chat, is_recurring) ==
    LET st == user_states[u]
        has_content == st.content \notin {"<absent>", ""}
        has_photo == st.photo_data # "None"
    IN  IF st = NoSession THEN Stay(FALSE, "none")
        ELSE IF ~st.has_post_data THEN Stay(FALSE, "exception")
        ELSE IF ~has_content /\ ~has_photo THEN Stay(FALSE, "error_empty_post")
        ELSE IF st.scheduled_time = NoText THEN Stay(FALSE, "error_saving")
        ELSE Res([user_states EXCEPT ![u] = NoSession],
                 AddPost(posts, nextId,
                         IF st.content = "<absent>" THEN "" ELSE st.content,
                         st.photo_data, st.photo_filename, st.scheduled_time,
                         is_recurring),
                 nextId + 1, authorized, TRUE, "post_created")

\* process_message
ProcessMessage(u, chat, text, photo_data, photo_filename) ==
    LET st == user_states[u] IN
    IF st.state = "waiting_for_password" THEN HandlePasswordAttempt(u, text)
    ELSE IF st = NoSession THEN
        IF IsCommand(text) THEN ProcessCommand(u, chat, text)
        ELSE IF u \notin authorized THEN
            (IF chat = "group" THEN Stay(FALSE, "silent")
             ELSE HandleUnauthorizedUser(u, chat))
        ELSE IF chat # "group" THEN Stay(FALSE, "use_help")
        ELSE Stay(FALSE, "silent")
    ELSE IF st.state = "waiting_for_content" THEN
        SetSession(u, [st EXCEPT !.content = IF Norm(text) = "skip" THEN "" ELSE text,
                                 !.state = "waiting_for_photo"], "ask_photo")
    ELSE IF st.state = "waiting_for_photo" THEN
        IF photo_data # "None" THEN
            SetSession(u, [st EXCEPT !.photo_data = photo_data,
                                     !.photo_filename =
                                         IF photo_filename \in {"None", ""}
                                         THEN "photo.jpg" ELSE photo_filename,
                                     !.state = "waiting_for_schedule"], "calendar")
        ELSE IF Norm(text) = "skip" THEN
            SetSession(u, [st EXCEPT !.state = "waiting_for_schedule"], "calendar")
        ELSE Stay(FALSE, "ask_photo_again")
    ELSE IF st.state = "waiting_for_schedule" THEN Stay(FALSE, "use_calendar")
    ELSE IF st.state = "waiting_for_recurring" THEN
        FinishAddPost(u, chat, Norm(text) \in {"yes", "y", "daily", "repeat"})
    ELSE Stay(FALSE, "none")

\* callback kinds process_callback_query refuses in groups
DeleteKinds == {"delete", "confirm_delete", "cancel_delete"}

\* callback kinds exempt from the authorization check (cal_, time_, recurring_, skip_)
ExemptKinds == {"cal", "time", "recurring", "skip"}

\* process_callback_query: the checks before the dispatch
Gate(u, chat, kind, body) ==
    IF kind \in DeleteKinds /\ chat = "group" THEN Stay(FALSE, "ignored")
    ELSE IF kind \notin ExemptKinds /\ u \notin authorized THEN
        (IF chat = "group" THEN Stay(FALSE, "ignored")
         ELSE HandleUnauthorizedUser(u, chat))
    ELSE body

\* callback skip_text
SkipText(u) ==
    LET st == user_states[u] IN
    IF st # NoSession /\ st.has_post_data
    THEN SetSession(u, [st EXCEPT !.content = "", !.state = "waiting_for_photo"],
                    "ask_photo")
    ELSE Stay(FALSE, "start_over")

\* a variant that advances whatever session the user has
SkipPhoto_AnySession(u) ==
    LET st == user_states[u] IN
    IF st # NoSession
    THEN SetSession(u, [st EXCEPT !.state = "waiting_for_schedule"], "calendar")
    ELSE Stay(FALSE, "start_over")

\* callback skip_photo
SkipPhoto(u) ==
    LET st == user_states[u] IN
    IF st # NoSession /\ st.has_post_data
    THEN SetSession(u, [st EXCEPT !.state = "waiting_for_schedule"], "calendar")
    ELSE Stay(FALSE, "start_over")

\* callback confirm_delete_<id>
ConfirmDelete(u, id) ==
    IF id \in DOMAIN posts
    THEN Res(user_states, DeletePost(posts, id), nextId, authorized, TRUE, "deleted")
    ELSE Stay(FALSE, "delete_failed")

\* a variant that deletes as soon as the delete button is pressed
HandleDeletePost_DeletesAtOnce(u, id) ==
    IF id \in DOMAIN posts
    THEN Res(user_states, DeletePost(posts, id), nextId, authorized, TRUE, "confirm_prompt")
    ELSE Stay(FALSE, "not_found")

\* handle_delete_post (callback delete_<id>)
HandleDeletePost(u, id) ==
    IF id \in DOMAIN posts THEN Stay(TRUE, "confirm_prompt")
    ELSE Stay(FALSE, "not_found")

\* callback cal_confirm_<y>_<m>_<d>
CalConfirm(u, y, m, d) ==
    LET st == user_states[u] IN
    IF st.has_post_data
    THEN SetSession(u, [st EXCEPT !.selected_date = DateText(y, m, d)], "time_picker")
    ELSE Stay(FALSE, "none")

\* a variant that drops the sessions of all users
CalCancel_ClearsAll(u, chat) ==
    Res([v \in Users |-> NoSession], posts, nextId, authorized, TRUE, "cancelled")

\* callback cal_cancel
CalCancel(u, chat) ==
    LET st == user_states[u] IN
    IF st # NoSession /\ st.has_post_data
    THEN SetSession(u, NoSession, "cancelled")
    ELSE Res([user_states EXCEPT ![u] = NoSession], posts, nextId, authorized,
             TRUE, ShowPostsList(u, chat).reply)

\* a variant that cancels the post creation, as cal_cancel does
TimeCancel_Destroys(u, chat) ==
    LET st == user_states[u] IN
    IF st # NoSession /\ st.has_post_data
    THEN SetSession(u, NoSession, "cancelled")
    ELSE Res([user_states EXCEPT ![u] = NoSession], posts, nextId, authorized,
             TRUE, ShowPostsList(u, chat).reply)

\* callback time_cancel
TimeCancel(u, chat) ==
    LET st == user_states[u] IN
    IF st # NoSession /\ st.has_post_data
    THEN Stay(TRUE, "calendar")
    ELSE Res([user_states EXCEPT ![u] = NoSession], posts, nextId, authorized,
             TRUE, ShowPostsList(u, chat).reply)

\* `scheduled_datetime < datetime.datetime.now()` in _handle_time_confirm
\* a variant that compares the dates only
InPast_DateOnly(candidate, at) == candidate.ord < at.ord

InPast(candidate, at) == DtLess(candidate, at)

\* _handle_time_confirm
HandleTimeConfirm(u, hour, minute) ==
    LET st == user_states[u] IN
    IF st = NoSession THEN Stay(FALSE, "none")
    ELSE IF ~st.has_post_data THEN Stay(FALSE, "none")
    ELSE IF st.selected_date = NoDate THEN Stay(FALSE, "error_no_date")
    ELSE LET scheduled_datetime == CombineDateTime(st.selected_date, hour, minute)
         IN  IF InPast(scheduled_datetime, now) THEN Stay(FALSE, "reject_past")
             ELSE SetSession(u, [st EXCEPT
                                   !.scheduled_time = IsoFormat(scheduled_datetime),
                                   !.state = "waiting_for_recurring"],
                             "ask_recurring")

\* a variant that puts the clock's hour and minute on the selected date
HandleTimeConfirmNow_OnSelectedDate(u) ==
    LET st == user_states[u] IN
    IF st = NoSession THEN Stay(FALSE, "none")
    ELSE IF ~st.has_post_data THEN Stay(FALSE, "none")
    ELSE IF st.selected_date = NoDate THEN Stay(FALSE, "error_no_date")
    ELSE SetSession(u, [st EXCEPT
                          !.scheduled_time = IsoFormat(
                              CombineDateTime(st.selected_date, now.hour, now.minute)),
                          !.state = "waiting_for_recurring"],
                    "ask_recurring")

\* _handle_time_confirm_now
HandleTimeConfirmNow(u) ==
    LET st == user_states[u] IN
    IF st = NoSession THEN Stay(FALSE, "none")
    ELSE IF ~st.has_post_data THEN Stay(FALSE, "none")
    ELSE SetSession(u, [st EXCEPT !.scheduled_time = IsoFormat(now),
                                  !.state = "waiting_for_recurring"],
                    "ask_recurring")

-----------------------------------------------------------------------------
(* The wall clock *)

\* the first day of the run: Friday 2026-01-02
FirstOrd == Ordinal(2026, 1, 2)

\* the times of day the clock is read at
ClockTimes == {<<9, 0>>, <<23, 30>>}

ClockInstants ==
    {[ord |-> FirstOrd + k, hour |-> t[1], minute |-> t[2], sub |-> s] :
        k \in 0..(MaxClockDays - 1), t \in ClockTimes, s \in Subs}

\* time passes
ClockAdvance ==
    /\ \E t \in ClockInstants : DtLess(now, t) /\ now' = t
    /\ ev' = Ev("clock", "", 0, NoPost, TRUE, "", NoStore)
    /\ UNCHANGED <<posts, nextId, authorized, user_states, scheduler_running,
                   spc, tickNow, snapshot, qi, current_time, next_time,
                   attempted, published, tickStore, failed, timers, lost,
                   picker_args, keyboard, old_loops, sent>>

-----------------------------------------------------------------------------
(* Foreground loop: one action per inbound update *)

\* ids a delete button can name
PostIds == 1..(MaxInitPosts + MaxNewPosts + 1)

\* dates of the day buttons pressed: from the day before the run to the day after it
CalDates == {FromOrdinal(FirstOrd + k) : k \in (-1)..MaxClockDays}

\* the 22 quick-pick slots of generate_time_picker
QuickSlots ==
    {<<h, mi>> : h \in {8, 9, 10, 11, 12, 14, 16, 18, 20, 21, 22}, mi \in {0, 30}}

\* one inline button: its callback_data, split at the underscores
Button(cb, h, mi) == [cb |-> cb, hour |-> h, minute |-> mi]

\* the rows of quick-time buttons, as generate_time_picker appends them
QuickRows ==
    << <<Button("time_quick", 8, 0), Button("time_quick", 8, 30), Button("time_quick", 9, 0), Button("time_quick", 9, 30)>>,
       <<Button("time_quick", 10, 0), Button("time_quick", 10, 30), Button("time_quick", 11, 0), Button("time_quick", 11, 30)>>,
       <<Button("time_quick", 12, 0), Button("time_quick", 12, 30), Button("time_quick", 14, 0), Button("time_quick", 14, 30)>>,
       <<Button("time_quick", 16, 0), Button("time_quick", 16, 30), Button("time_quick", 18, 0), Button("time_quick", 18, 30)>>,
       <<Button("time_quick", 20, 0), Button("time_quick", 20, 30), Button("time_quick", 21, 0), Button("time_quick", 21, 30)>>,
       <<Button("time_quick", 22, 0), Button("time_quick", 22, 30), Button("time_quick_now", 0, 0)>> >>

quick_times == {8, 9, 10, 11, 12, 14, 16, 18, 20, 21, 22}

quick_minutes == {0, 30}

\* the fine adjustment row for a position
AdjustRow(hour, minute) ==
    <<Button("time_hour_dec", hour, minute), Button("time_hour_inc", hour, minute), Button("time_min_dec", hour, minute), Button("time_min_inc", hour, minute)>>

\* the control row for a position
ControlRow(hour, minute) ==
    <<Button("time_confirm", hour, minute), Button("time_cancel", 0, 0)>>

\* a variant that shows the adjustment row only when both the hour and the
\* minute are off the quick values
GenerateTimePicker_BothOff(hour, minute) ==
    << <<Button("time_ignore", hour, minute)>> >> \o QuickRows
        \o (IF hour \notin quick_times /\ minute \notin quick_minutes
                THEN <<AdjustRow(hour, minute)>> ELSE <<>>)
        \o <<ControlRow(hour, minute)>>

\* generate_time_picker(hour, minute): the rows of the inline keyboard
GenerateTimePicker(hour, minute) ==
    << <<Button("time_ignore", hour, minute)>> >> \o QuickRows
        \o (IF hour \notin quick_times \/ minute \notin quick_minutes
                THEN <<AdjustRow(hour, minute)>> ELSE <<>>)
        \o <<ControlRow(hour, minute)>>

\* no keyboard has been generated
NoKeyboard == <<>>

\* the slots and picker positions the model's user presses
TimeInputs == {<<9, 0>>, <<22, 30>>}

\* the handler's result becomes the state; the scheduler's variables stay
Fg(type, u, chat, id, arg, r) ==
    /\ user_states' = r.us
    /\ posts' = r.posts
    /\ nextId' = r.nextId
    /\ authorized' = r.auth
    /\ ev' = [type |-> type, user |-> u, id |-> id, post |-> NoPost, ok |-> r.ok,
              reply |-> r.reply, before |-> posts, sess |-> user_states[u],
              arg |-> arg, chat |-> chat]
    /\ timers' = IF type = "confirm_delete" /\ r.reply = "deleted"
                  THEN timers \cup {<<chat, u>>} ELSE timers
    /\ UNCHANGED <<now, scheduler_running, spc, tickNow, snapshot, qi,
                   current_time, next_time, attempted, published, tickStore, failed,
                   lost, picker_args, keyboard, old_loops, sent>>

\* a variant of the refresh that clears the user's state before it lists,
\* as the cancel branches do
RefreshPostsList_ClearsState(u, chat) ==
    Res([user_states EXCEPT ![u] = NoSession], posts, nextId, authorized,
        TRUE, ShowPostsList(u, chat).reply)

\* the callable of threading.Timer(2.0, lambda: self.show_posts_list(chat_id,
\* user_id))
RefreshPostsList(u, chat) == ShowPostsList(u, chat)

\* a timer thread started by confirm_delete_ runs its callable
TimerFire ==
    \E t \in timers :
        LET r == RefreshPostsList(t[2], t[1]) IN
        /\ timers' = timers \ {t}
        /\ user_states' = r.us
        /\ posts' = r.posts
        /\ nextId' = r.nextId
        /\ authorized' = r.auth
        /\ ev' = [type |-> "list_refresh", user |-> t[2], id |-> 0, post |-> NoPost,
                  ok |-> r.ok, reply |-> r.reply, before |-> posts,
                  sess |-> user_states[t[2]], arg |-> NoArg, chat |-> t[1]]
        /\ UNCHANGED <<now, scheduler_running, spc, tickNow, snapshot, qi,
                       current_time, next_time, attempted, published, tickStore,
                       failed, lost, picker_args, keyboard, old_loops, sent>>

DateArg(y, m, d) == [NoArg EXCEPT !.y = y, !.m = m, !.d = d]
TimeArg(h, mi) == [NoArg EXCEPT !.h = h, !.mi = mi]

\* a variant in which a message at the date or time step sends the user back
\* to the date
Message_BackToDate(u, chat, msg) ==
    Fg("message", u, chat, 0, [NoArg EXCEPT !.text = msg[1]],
       IF user_states[u].state = "waiting_for_schedule"
       THEN SetSession(u, [user_states[u] EXCEPT !.selected_date = NoDate], "use_calendar")
       ELSE ProcessMessage(u, chat, msg[1], msg[2], msg[3]))

\* _handle_message -> process_message
Message(u, chat, msg) ==
    Fg("message", u, chat, 0, [NoArg EXCEPT !.text = msg[1]],
       ProcessMessage(u, chat, msg[1], msg[2], msg[3]))

CbAddNew(u, chat) ==
    Fg("add_new", u, chat, 0, NoArg, Gate(u, chat, "add_new", StartAddPostFlow(u, chat)))

CbDelete(u, chat, id) ==
    Fg("delete", u, chat, id, NoArg, Gate(u, chat, "delete", HandleDeletePost(u, id)))

CbConfirmDelete(u, chat, id) ==
    Fg("confirm_delete", u, chat, id, NoArg,
       Gate(u, chat, "confirm_delete", ConfirmDelete(u, id)))

CbCancelDelete(u, chat, id) ==
    Fg("cancel_delete", u, chat, id, NoArg,
       Gate(u, chat, "cancel_delete", ShowPostsList(u, chat)))

CbRecurring(u, chat, yes) ==
    Fg(IF yes THEN "recurring_yes" ELSE "recurring_no", u, chat, 0, NoArg,
       Gate(u, chat, "recurring", FinishAddPost(u, chat, yes)))

CbSkipText(u, chat) ==
    Fg("skip_text", u, chat, 0, NoArg, Gate(u, chat, "skip", SkipText(u)))

CbSkipPhoto(u, chat) ==
    Fg("skip_photo", u, chat, 0, NoArg, Gate(u, chat, "skip", SkipPhoto(u)))

\* a variant that marks the selected day before it tests for a past date
GenerateCalendar_SelectedFirst(year, month, selected_day, today) ==
    [year |-> year, month |-> month, selected_day |-> selected_day,
     prev |-> IF month > 1 THEN <<year, month - 1>> ELSE <<year - 1, 12>>,
     next |-> IF month < 12 THEN <<year, month + 1>> ELSE <<year + 1, 1>>,
     days |-> [day \in 1..DaysInMonth(year, month) |->
                  IF day = selected_day
                  THEN [mark |-> "selected", callback_data |-> "cal_day",
                        y |-> year, m |-> month, d |-> day]
                  ELSE IF Ordinal(year, month, day) < today.ord
                  THEN [mark |-> "past", callback_data |-> "cal_ignore",
                        y |-> 0, m |-> 0, d |-> 0]
                  ELSE [mark |-> "available", callback_data |-> "cal_day",
                        y |-> year, m |-> month, d |-> day]],
     confirm |-> selected_day # 0]

\* generate_calendar: the navigation row, the day cells and the control row
\* of the keyboard; selected_day 0 is None, today is datetime.date.today()
GenerateCalendar(year, month, selected_day, today) ==
    [year |-> year, month |-> month, selected_day |-> selected_day,
     prev |-> IF month > 1 THEN <<year, month - 1>> ELSE <<year - 1, 12>>,
     next |-> IF month < 12 THEN <<year, month + 1>> ELSE <<year + 1, 1>>,
     days |-> [day \in 1..DaysInMonth(year, month) |->
                  IF Ordinal(year, month, day) < today.ord
                  THEN [mark |-> "past", callback_data |-> "cal_ignore",
                        y |-> 0, m |-> 0, d |-> 0]
                  ELSE IF day = selected_day
                  THEN [mark |-> "selected", callback_data |-> "cal_day",
                        y |-> year, m |-> month, d |-> day]
                  ELSE [mark |-> "available", callback_data |-> "cal_day",
                        y |-> year, m |-> month, d |-> day]],
     confirm |-> selected_day # 0]

\* the keyboard the handler of event e draws when it answers with a calendar:
\* cal_nav_ and cal_day_ draw the month (and day) of their data, every other
\* handler the month of datetime.now()
CalendarOf(e, at) ==
    IF e.type \in {"cal_nav", "cal_day"}
    THEN GenerateCalendar(e.arg.y, e.arg.m, e.arg.d, at)
    ELSE GenerateCalendar(FromOrdinal(at.ord)[1], FromOrdinal(at.ord)[2], 0, at)

\* months of the navigation buttons pressed
CalMonths == {<<2025, 12>>, <<2026, 1>>, <<2026, 2>>}

\* cal_nav_<y>_<m>: the calendar of that month is drawn
CbCalNav(u, chat, ym) ==
    Fg("cal_nav", u, chat, 0, DateArg(ym[1], ym[2], 0),
       Gate(u, chat, "cal", Stay(TRUE, "calendar")))

\* cal_ignore: pass
CbCalIgnore(u, chat) ==
    Fg("cal_ignore", u, chat, 0, NoArg, Gate(u, chat, "cal", Stay(TRUE, "none")))

\* a variant that stores the day in the draft as soon as it is selected
CalDay_StoresDate(u, y, m, d) ==
    LET st == user_states[u] IN
    IF st.has_post_data
    THEN SetSession(u, [st EXCEPT !.selected_date = DateText(y, m, d)], "calendar")
    ELSE Stay(TRUE, "calendar")

\* callback cal_day_<y>_<m>_<d>: only the keyboard is drawn again, with the
\* day selected
CalDay(u, y, m, d) == Stay(TRUE, "calendar")

CbCalDay(u, chat, date) ==
    Fg("cal_day", u, chat, 0, DateArg(date[1], date[2], date[3]),
       Gate(u, chat, "cal", CalDay(u, date[1], date[2], date[3])))

CbCalConfirm(u, chat, date) ==
    Fg("cal_confirm", u, chat, 0, DateArg(date[1], date[2], date[3]),
       Gate(u, chat, "cal", CalConfirm(u, date[1], date[2], date[3])))

CbCalCancel(u, chat) ==
    Fg("cal_cancel", u, chat, 0, NoArg, Gate(u, chat, "cal", CalCancel(u, chat)))

\* a variant in which a quick slot only moves the picker to that slot
CbTimeQuick_DisplayOnly(u, chat, t) ==
    Fg("time_quick", u, chat, 0, TimeArg(t[1], t[2]),
       Gate(u, chat, "time", Stay(TRUE, "time_picker")))

\* time_quick_<h>_<m>: four parts, so _handle_time_confirm(hour, minute)
CbTimeQuick(u, chat, t) ==
    Fg("time_quick", u, chat, 0, TimeArg(t[1], t[2]),
       Gate(u, chat, "time", HandleTimeConfirm(u, t[1], t[2])))

CbTimeConfirm(u, chat, t) ==
    Fg("time_confirm", u, chat, 0, TimeArg(t[1], t[2]),
       Gate(u, chat, "time", HandleTimeConfirm(u, t[1], t[2])))

CbTimeQuickNow(u, chat) ==
    Fg("time_quick_now", u, chat, 0, NoArg, Gate(u, chat, "time", HandleTimeConfirmNow(u)))

CbTimeCancel(u, chat) ==
    Fg("time_cancel", u, chat, 0, NoArg, Gate(u, chat, "time", TimeCancel(u, chat)))

-----------------------------------------------------------------------------
(* Initial states *)

Iso(y, m, d, h, mi, s) == IsoFormat(Dt(y, m, d, h, mi, s))

\* rows earlier runs can have left in bot_posts.db
InitRows ==
    << Row("news", "None", "None", Iso(2026, 1, 2, 9, 0, 0), FALSE, FALSE),
       Row("news", "img", "photo.jpg", Iso(2026, 1, 1, 9, 0, 0), TRUE, FALSE),
       Row("", "img", "file_7.jpg", Iso(2026, 1, 2, 22, 30, 0), FALSE, FALSE),
       Row("news", "None", "None", BadText("bad", 0), TRUE, FALSE),
       Row("", "img", "photo.jpg", BadText("bytes", 10000), FALSE, FALSE),
       Row("news", "None", "None", Iso(2025, 12, 31, 9, 0, 0), FALSE, TRUE) >>

\* the k-th smallest element of the set of numbers I
Nth(I, k) == CHOOSE i \in I : Cardinality({j \in I : j < i}) = k - 1

\* the tables holding up to MaxInitPosts different rows of InitRows, ids from 1
InitStores ==
    {[k \in 1..Cardinality(I) |-> InitRows[Nth(I, k)]] :
        I \in {J \in SUBSET (1..Len(InitRows)) : Cardinality(J) <= MaxInitPosts}}

InitCommon ==
    /\ now = Dt(2026, 1, 2, 9, 0, 0)
    /\ authorized = {"u1"}
    /\ user_states = [u \in Users |-> NoSession]
    /\ scheduler_running = FALSE
    /\ spc = "none"
    /\ tickNow = NoTime
    /\ snapshot = <<>>
    /\ qi = 0
    /\ attempted = {}
    /\ published = {}
    /\ tickStore = NoStore
    /\ failed = {}
    /\ timers = {}
    /\ lost = {}
    /\ keyboard = NoKeyboard
    /\ old_loops = <<>>
    /\ sent = {}
    /\ ev = Ev("init", "", 0, NoPost, TRUE, "", NoStore)

\* a run that finds rows of earlier runs in the database
InitSched ==
    /\ InitCommon
    /\ current_time = NoTime
    /\ next_time = NoTime
    /\ picker_args = <<12, 0>>
    /\ posts \in InitStores
    /\ nextId = Cardinality(DOMAIN posts) + 1

\* a run on a fresh database
InitWizard ==
    /\ InitCommon
    /\ current_time = NoTime
    /\ next_time = NoTime
    /\ picker_args = <<12, 0>>
    /\ posts = NoStore
    /\ nextId = 1

\* the positions generate_time_picker is called with: every time of day
PickerInputs == {<<h, mi>> : h \in 0..23, mi \in 0..59}

InitTimePicker ==
    /\ InitCommon
    /\ current_time = NoTime
    /\ next_time = NoTime
    /\ posts = NoStore
    /\ nextId = 1
    /\ picker_args \in PickerInputs

\* time_markup = self.generate_time_picker(hour, minute)
CallGenerateTimePicker ==
    /\ keyboard = NoKeyboard
    /\ keyboard' = GenerateTimePicker(picker_args[1], picker_args[2])
    /\ UNCHANGED <<now, posts, nextId, authorized, user_states, scheduler_running,
                   spc, tickNow, snapshot, qi, current_time, next_time,
                   attempted, published, tickStore, failed, timers, lost,
                   picker_args, old_loops, sent, ev>>

NextTimePicker == CallGenerateTimePicker

\* generate_time_picker applied to each time of day
SpecTimePicker == InitTimePicker /\ [][NextTimePicker]_vars

-----------------------------------------------------------------------------
(* Specifications *)

\* the ids whose delete button is pressed while the scheduler runs
DeleteInputs == {1}

\* the scheduler thread, the clock, and the foreground deleting a post
NextSched ==
    \/ ClockAdvance
    \/ StartScheduler
    \/ SchedLoopTest
    \/ SchedTick
    \/ SchedEval
    \/ \E ok \in BOOLEAN : SchedSend(ok)
    \/ SchedWriteBack
    \/ SchedEndTick
    \/ \E id \in DeleteInputs : CbConfirmDelete("u1", "private", id)

SpecSched == InitSched /\ [][NextSched]_vars

\* the foreground loop serving one user, and the clock
\* the model's user stops once MaxNewPosts posts have been stored
UserActive == nextId <= MaxNewPosts

NextWizard ==
    \/ ClockAdvance
    \/ \E chat \in Chats, msg \in Messages : UserActive /\ Message("u1", chat, msg)
    \/ \E chat \in Chats : UserActive /\ CbAddNew("u1", chat)
    \/ \E id \in DeleteInputs : UserActive /\ CbDelete("u1", "private", id)
    \/ \E id \in DeleteInputs : UserActive /\ CbConfirmDelete("u1", "private", id)
    \/ \E id \in DeleteInputs : UserActive /\ CbCancelDelete("u1", "private", id)
    \/ \E yes \in BOOLEAN : UserActive /\ CbRecurring("u1", "private", yes)
    \/ UserActive /\ CbSkipText("u1", "private")
    \/ UserActive /\ CbSkipPhoto("u1", "private")
    \/ \E ym \in CalMonths : UserActive /\ CbCalNav("u1", "private", ym)
    \/ UserActive /\ CbCalIgnore("u1", "private")
    \/ \E date \in CalDates : UserActive /\ CbCalDay("u1", "private", date)
    \/ \E date \in CalDates : UserActive /\ CbCalConfirm("u1", "private", date)
    \/ UserActive /\ CbCalCancel("u1", "private")
    \/ \E t \in TimeInputs : UserActive /\ CbTimeQuick("u1", "private", t)
    \/ \E t \in TimeInputs : UserActive /\ CbTimeConfirm("u1", "private", t)
    \/ UserActive /\ CbTimeQuickNow("u1", "private")
    \/ UserActive /\ CbTimeCancel("u1", "private")

SpecWizard == InitWizard /\ [][NextWizard]_vars

\* the scheduler thread from its start to the shutdown of the process
NextStop ==
    \/ ClockAdvance
    \/ StartScheduler
    \/ SchedLoopTest
    \/ SchedTick
    \/ SchedEval
    \/ \E ok \in BOOLEAN : SchedSend(ok)
    \/ SchedWriteBack
    \/ SchedEndTick
    \/ StopScheduler
    \/ ProcessExit

SpecStop == InitSched /\ [][NextStop]_vars

\* a step of the scheduler thread
SchedulerStep ==
    \/ SchedLoopTest
    \/ SchedTick
    \/ SchedEval
    \/ \E ok \in BOOLEAN : SchedSend(ok)
    \/ SchedWriteBack
    \/ SchedEndTick

\* the scheduler over a database of earlier runs, with crashes of the
\* process between a send and its write-back
NextCrash ==
    \/ StartScheduler
    \/ SchedLoopTest
    \/ SchedTick
    \/ SchedEval
    \/ \E ok \in BOOLEAN : SchedSend(ok)
    \/ SchedWriteBack
    \/ SchedEndTick
    \/ Crash

\* run() starts the scheduler, and the thread runs on: it takes its next
\* step whenever it has one
SpecCrash ==
    InitSched /\ [][NextCrash]_vars /\ WF_vars(StartScheduler) /\ WF_vars(SchedulerStep)

\* the wizard stops once its post is stored
StoreActive == nextId <= MaxInitPosts

\* the text, the date and the time the wizard's user gives while the
\* scheduler runs
StoreMessages == {<<"news", "None", "None">>}
StoreDate == <<2026, 1, 2>>
StoreTime == <<22, 30>>

\* the scheduler thread beside a user who writes posts and deletes one,
\* over a database of earlier runs
NextStore ==
    \/ StartScheduler
    \/ SchedLoopTest
    \/ SchedTick
    \/ SchedEval
    \/ \E ok \in BOOLEAN : SchedSend(ok)
    \/ SchedWriteBack
    \/ SchedEndTick
    \/ \E id \in DeleteInputs : CbConfirmDelete("u1", "private", id)
    \/ StoreActive /\ CbAddNew("u1", "private")
    \/ \E msg \in StoreMessages : StoreActive /\ Message("u1", "private", msg)
    \/ StoreActive /\ CbSkipPhoto("u1", "private")
    \/ StoreActive /\ CbCalConfirm("u1", "private", StoreDate)
    \/ StoreActive /\ CbCalCancel("u1", "private")
    \/ StoreActive /\ CbTimeQuick("u1", "private", StoreTime)
    \/ \E yes \in BOOLEAN : StoreActive /\ CbRecurring("u1", "private", yes)

\* databases of earlier runs that leave room for one more post
InitStore ==
    /\ InitSched
    /\ Cardinality(DOMAIN posts) = MaxInitPosts - 1

SpecStore == InitStore /\ [][NextStore]_vars

\* the scheduler thread and the clock beside a user who takes posts through
\* the wizard, on a fresh database
NextWrites ==
    \/ ClockAdvance
    \/ StartScheduler
    \/ SchedulerStep
    \/ UserActive /\ CbAddNew("u1", "private")
    \/ \E msg \in StoreMessages : UserActive /\ Message("u1", "private", msg)
    \/ UserActive /\ CbSkipPhoto("u1", "private")
    \/ \E date \in CalDates : UserActive /\ CbCalConfirm("u1", "private", date)
    \/ \E t \in TimeInputs : UserActive /\ CbTimeQuick("u1", "private", t)
    \/ \E t \in TimeInputs : UserActive /\ CbTimeConfirm("u1", "private", t)
    \/ UserActive /\ CbTimeQuickNow("u1", "private")
    \/ \E yes \in BOOLEAN : UserActive /\ CbRecurring("u1", "private", yes)

SpecWrites == InitWizard /\ [][NextWrites]_vars

\* the foreground loop serving a user who takes a draft to the recurrence step
\* and answers there with a text or a button
NextRecurring ==
    \/ UserActive /\ CbAddNew("u1", "private")
    \/ \E t \in RecurTexts : UserActive /\ Message("u1", "private", <<t, "None", "None">>)
    \/ UserActive /\ CbSkipText("u1", "private")
    \/ UserActive /\ CbSkipPhoto("u1", "private")
    \/ UserActive /\ CbCalConfirm("u1", "private", StoreDate)
    \/ UserActive /\ CbTimeQuick("u1", "private", StoreTime)
    \/ \E yes \in BOOLEAN : UserActive /\ CbRecurring("u1", "private", yes)

SpecRecurring == InitWizard /\ [][NextRecurring]_vars

\* the scheduler thread with iterations that fail, and a stop request
NextFault ==
    \/ StartScheduler
    \/ SchedulerStep
    \/ SchedFault
    \/ StopScheduler

\* the thread is scheduled again and again, and its sleeps end
SpecFault ==
    InitSched /\ [][NextFault]_vars /\ WF_vars(StartScheduler) /\ WF_vars(SchedulerStep)

\* the scheduler thread and the clock, with reschedules that raise
NextWriteFault ==
    \/ ClockAdvance
    \/ StartScheduler
    \/ SchedulerStep
    \/ SchedWriteBackFault

SpecWriteFault == InitSched /\ [][NextWriteFault]_vars

\* the ids of the delete, confirm and cancel buttons pressed
DeleteIds == {1, 2}

\* the foreground loop serving a user who manages the posts of earlier runs,
\* with and without a draft open
NextDelete ==
    \/ \E id \in DeleteIds : CbDelete("u1", "private", id)
    \/ \E id \in DeleteIds : CbConfirmDelete("u1", "private", id)
    \/ \E id \in DeleteIds : CbCancelDelete("u1", "private", id)
    \/ CbAddNew("u1", "private")
    \/ \E msg \in StoreMessages : Message("u1", "private", msg)

SpecDelete == InitSched /\ [][NextDelete]_vars

\* every sequence of start_scheduler and stop_scheduler calls, with the loop
\* threads they leave, over an empty table
NextLoops ==
    \/ StartScheduler
    \/ StartSchedulerAgain
    \/ StopScheduler
    \/ RestartScheduler
    \/ SchedLoopTest
    \/ SchedTick
    \/ SchedEndTick
    \/ OldLoopStep

SpecLoops == InitWizard /\ [][NextLoops]_vars

\* the messages two users send: a text and the password
PairMessages == {<<"news", "None", "None">>, <<AccessPassword, "None", "None">>}

\* the foreground loop serving two users in their private chats, one of whom
\* has to give the password first
NextPair ==
    \/ \E u \in Users, msg \in PairMessages : UserActive /\ Message(u, "private", msg)
    \/ \E u \in Users : UserActive /\ CbAddNew(u, "private")
    \/ \E u \in Users : UserActive /\ CbSkipPhoto(u, "private")
    \/ \E u \in Users : UserActive /\ CbCalConfirm(u, "private", StoreDate)
    \/ \E u \in Users : UserActive /\ CbCalCancel(u, "private")
    \/ \E u \in Users : UserActive /\ CbTimeQuick(u, "private", StoreTime)
    \/ \E u \in Users : UserActive /\ CbTimeCancel(u, "private")
    \/ \E u \in Users, yes \in BOOLEAN : UserActive /\ CbRecurring(u, "private", yes)

SpecPair == InitWizard /\ [][NextPair]_vars

\* the texts typed while the threads run
ThreadMessages == {<<"YES", "None", "None">>, <<" Skip ", "None", "None">>}

\* the scheduler thread and the timer threads beside the foreground loop of
\* a user who deletes a post and writes a draft
NextThreads ==
    \/ StartScheduler
    \/ SchedLoopTest
    \/ SchedTick
    \/ SchedEval
    \/ \E ok \in BOOLEAN : SchedSend(ok)
    \/ SchedWriteBack
    \/ SchedEndTick
    \/ TimerFire
    \/ \E id \in DeleteInputs : CbConfirmDelete("u1", "private", id)
    \/ CbAddNew("u1", "private")
    \/ \E msg \in ThreadMessages : Message("u1", "private", msg)

SpecThreads == InitSched /\ [][NextThreads]_vars

\* the messages of a user who has to give the password
GateMessages ==
    Messages \cup {<<AccessPassword, "None", "None">>, <<"guess", "None", "None">>}

\* the user who is not authorized sends updates until the password is accepted
Unauthorized(u) == u \notin authorized

\* every update a user who was never authorized can send, over a database
\* that holds the rows of earlier runs
NextGate ==
    \/ ClockAdvance
    \/ \E chat \in Chats, msg \in GateMessages :
           Unauthorized("u2") /\ Message("u2", chat, msg)
    \/ \E chat \in Chats : Unauthorized("u2") /\ CbAddNew("u2", chat)
    \/ \E chat \in Chats, id \in DeleteInputs :
           Unauthorized("u2") /\ CbDelete("u2", chat, id)
    \/ \E chat \in Chats, id \in DeleteInputs :
           Unauthorized("u2") /\ CbConfirmDelete("u2", chat, id)
    \/ \E chat \in Chats, id \in DeleteInputs :
           Unauthorized("u2") /\ CbCancelDelete("u2", chat, id)
    \/ \E chat \in Chats, yes \in BOOLEAN :
           Unauthorized("u2") /\ CbRecurring("u2", chat, yes)
    \/ \E chat \in Chats : Unauthorized("u2") /\ CbSkipText("u2", chat)
    \/ \E chat \in Chats : Unauthorized("u2") /\ CbSkipPhoto("u2", chat)
    \/ \E chat \in Chats, ym \in CalMonths :
           Unauthorized("u2") /\ CbCalNav("u2", chat, ym)
    \/ \E chat \in Chats : Unauthorized("u2") /\ CbCalIgnore("u2", chat)
    \/ \E chat \in Chats, date \in CalDates :
           Unauthorized("u2") /\ CbCalDay("u2", chat, date)
    \/ \E chat \in Chats, date \in CalDates :
           Unauthorized("u2") /\ CbCalConfirm("u2", chat, date)
    \/ \E chat \in Chats : Unauthorized("u2") /\ CbCalCancel("u2", chat)
    \/ \E chat \in Chats, t \in TimeInputs :
           Unauthorized("u2") /\ CbTimeQuick("u2", chat, t)
    \/ \E chat \in Chats, t \in TimeInputs :
           Unauthorized("u2") /\ CbTimeConfirm("u2", chat, t)
    \/ \E chat \in Chats : Unauthorized("u2") /\ CbTimeQuickNow("u2", chat)
    \/ \E chat \in Chats : Unauthorized("u2") /\ CbTimeCancel("u2", chat)

SpecGate == InitSched /\ [][NextGate]_vars

\* the instants _get_next_weekday is called with: two weeks of days around
\* the turn of the year, at several times of day
WeekdayInputs ==
    {[ord |-> Ordinal(2025, 12, 29) + k, hour |-> t[1], minute |-> t[2], sub |-> s] :
        k \in 0..13, t \in ClockTimes \cup {<<0, 0>>, <<23, 59>>}, s \in Subs}

InitNextWeekday ==
    /\ InitCommon
    /\ posts = NoStore
    /\ nextId = 1
    /\ current_time \in WeekdayInputs
    /\ picker_args = <<12, 0>>
    /\ next_time = NoTime

\* next_time = self._get_next_weekday(current_time)
CallGetNextWeekday ==
    /\ next_time = NoTime
    /\ next_time' = GetNextWeekday(current_time)
    /\ UNCHANGED <<now, posts, nextId, authorized, user_states, scheduler_running,
                   spc, tickNow, snapshot, qi, current_time,
                   attempted, published, tickStore, failed, timers, lost,
          picker_args, keyboard, old_loops, sent, ev>>

NextNextWeekday == CallGetNextWeekday

\* _get_next_weekday applied to each of the inputs
SpecNextWeekday == InitNextWeekday /\ [][NextNextWeekday]_vars

-----------------------------------------------------------------------------
(* Properties of the publish scheduler *)

\* the rows of the tick's list the due test accepts
DueInSnapshot ==
    {snapshot[k].id : k \in {j \in 1..Len(snapshot) :
        /\ IsStr(snapshot[j].scheduled_time)
        /\ Parseable(snapshot[j].scheduled_time)
        /\ ~DtLess(tickNow, FromIsoFormat(snapshot[j].scheduled_time))}}

\* the rows of the tick's list whose scheduled_time cannot be read
CorruptInSnapshot ==
    {snapshot[k].id : k \in {j \in 1..Len(snapshot) :
        ~IsStr(snapshot[j].scheduled_time) \/ ~Parseable(snapshot[j].scheduled_time)}}

\* the day of the first Monday-to-Friday date after the date of t
FirstWeekdayAfter(t) ==
    CHOOSE n \in (t.ord + 1)..(t.ord + 3) :
        /\ (n + 6) % 7 \in 0..4
        /\ \A k \in (t.ord + 1)..(n - 1) : (k + 6) % 7 \in {5, 6}

\* C1: after the write-back of a successfully published non-recurring post,
\* the row (if it was not deleted meanwhile) has is_posted = true and the
\* scheduled_time it had before the publish.
C1_OneTimePostMarkedPosted ==
    (ev.type = "writeback" /\ ~ev.post.is_recurring /\ ev.id \in DOMAIN ev.before) =>
        /\ ev.id \in DOMAIN posts
        /\ posts[ev.id].is_posted
        /\ posts[ev.id].scheduled_time = ev.post.scheduled_time
        /\ posts[ev.id].scheduled_time = ev.before[ev.id].scheduled_time

C1_Witness ==
    /\ ev.type = "writeback"
    /\ ~ev.post.is_recurring
    /\ ev.id \in DOMAIN posts
    /\ ~ev.before[ev.id].is_posted
    /\ posts[ev.id].is_posted

\* C2: after the write-back of a successfully published recurring post with
\* scheduled instant T, the row's scheduled instant is T's time of day on the
\* first Monday-to-Friday date after T's date (computed from T, not from the
\* clock), and is_posted = false.
C2_RecurringPostAdvanced ==
    (ev.type = "writeback" /\ ev.post.is_recurring /\ ev.id \in DOMAIN ev.before) =>
        /\ ev.id \in DOMAIN posts
        /\ ~posts[ev.id].is_posted
        /\ Parseable(posts[ev.id].scheduled_time)
        /\ LET T == FromIsoFormat(ev.post.scheduled_time)
               N == FromIsoFormat(posts[ev.id].scheduled_time)
           IN  /\ N.ord = FirstWeekdayAfter(T)
               /\ N.hour = T.hour /\ N.minute = T.minute /\ N.sub = T.sub
               /\ Weekday(N) \in 0..4

\* a recurring post scheduled on a Friday is published after its time of day
\* has passed again and moves to the Monday
C2_Witness ==
    /\ ev.type = "writeback"
    /\ ev.post.is_recurring
    /\ ev.id \in DOMAIN posts
    /\ ev.post.scheduled_time = Iso(2026, 1, 2, 9, 0, 0)
    /\ posts[ev.id].scheduled_time = Iso(2026, 1, 5, 9, 0, 0)
    /\ tickNow = Dt(2026, 1, 2, 23, 30, 1)

\* C3: _get_next_weekday(T) is the first of T+1, T+2, T+3 days that falls on
\* Monday to Friday, with T's time of day: Monday-Thursday give the next day,
\* Friday, Saturday and Sunday the following Monday.
C3_NextWeekday ==
    next_time # NoTime =>
        LET T == current_time
            N == next_time
            wd == (T.ord + 6) % 7
        IN  /\ N.hour = T.hour /\ N.minute = T.minute /\ N.sub = T.sub
            /\ N.ord = FirstWeekdayAfter(T)
            /\ wd \in 0..3 => N.ord = T.ord + 1
            /\ wd = 4 => N.ord = T.ord + 3
            /\ wd = 5 => N.ord = T.ord + 2
            /\ wd = 6 => N.ord = T.ord + 1
            /\ T = Dt(2026, 1, 2, 9, 0, 0) => N = Dt(2026, 1, 5, 9, 0, 0)
            /\ T = Dt(2025, 12, 31, 9, 0, 0) => N = Dt(2026, 1, 1, 9, 0, 0)

\* Friday 2026-01-02 09:00 has been mapped to Monday 2026-01-05 09:00
C3_Witness ==
    /\ current_time = Dt(2026, 1, 2, 9, 0, 0)
    /\ next_time = Dt(2026, 1, 5, 9, 0, 0)

\* the rows of the store at the start of the tick the due test accepts
DueAtTickStart ==
    {i \in DOMAIN tickStore :
        /\ ~tickStore[i].is_posted
        /\ IsStr(tickStore[i].scheduled_time)
        /\ Parseable(tickStore[i].scheduled_time)
        /\ ~DtLess(tickNow, FromIsoFormat(tickStore[i].scheduled_time))}

\* C4: a publish attempt that returns non-ok changes no field of any post;
\* a post whose latest attempt failed keeps its fields, and every tick that
\* starts while it is in the store attempts it again (no limit, no backoff).
C4_FailedPublishRetried ==
    /\ (ev.type = "publish" /\ ~ev.ok) => posts = ev.before
    /\ \A i \in failed \cap DOMAIN posts :
           i \in DOMAIN tickStore => posts[i] = tickStore[i] /\ ~posts[i].is_posted
    /\ ev.type = "tick_end" =>
           \A i \in failed : i \in DOMAIN tickStore => i \in attempted

\* a post whose attempt failed in an earlier tick is found due again by a
\* later tick, with the fields it had
C4_Witness ==
    /\ ev.type = "due"
    /\ ev.id \in failed
    /\ ev.id \in DOMAIN posts
    /\ PostDict(posts, ev.id) = ev.post
    /\ tickNow = Dt(2026, 1, 2, 23, 30, 0)

\* C5: a tick lists exactly the unposted posts and attempts a publish for
\* exactly those whose scheduled instant is <= the tick's `now`; at the end
\* of the tick a successfully published non-recurring post is posted, a
\* successfully published recurring post is advanced by the weekday rule and
\* unposted, and every other post, each post scheduled later than `now`
\* among them, is as it was when the tick started.
C5_TickPublishesExactlyDue ==
    /\ ev.type = "tick_start" =>
           /\ {snapshot[k].id : k \in 1..Len(snapshot)} =
                  {i \in DOMAIN posts : ~posts[i].is_posted}
           /\ \A k \in 1..Len(snapshot) : snapshot[k] = PostDict(posts, snapshot[k].id)
    /\ ev.type = "tick_end" =>
           /\ attempted = DueAtTickStart
           /\ published \subseteq attempted
           /\ \A i \in DOMAIN tickStore \cap DOMAIN posts :
                  IF i \in published /\ ~tickStore[i].is_recurring
                  THEN posts[i] = [tickStore[i] EXCEPT !.is_posted = TRUE]
                  ELSE IF i \in published
                  THEN /\ ~posts[i].is_posted
                       /\ Parseable(posts[i].scheduled_time)
                       /\ LET T == FromIsoFormat(tickStore[i].scheduled_time)
                              N == FromIsoFormat(posts[i].scheduled_time)
                          IN  /\ N.ord = FirstWeekdayAfter(T)
                              /\ N.hour = T.hour /\ N.minute = T.minute
                              /\ N.sub = T.sub
                       /\ [posts[i] EXCEPT !.scheduled_time = tickStore[i].scheduled_time]
                              = tickStore[i]
                  ELSE posts[i] = tickStore[i]

\* a tick over a due one-time post, a due recurring post and a post scheduled
\* later the same day has published the first two and left the third
C5_Witness ==
    /\ ev.type = "tick_end"
    /\ tickNow = Dt(2026, 1, 2, 9, 0, 0)
    /\ \E i, j, k \in DOMAIN tickStore \cap DOMAIN posts :
           /\ i \in published /\ ~tickStore[i].is_recurring /\ posts[i].is_posted
           /\ tickStore[i].scheduled_time = Iso(2026, 1, 2, 9, 0, 0)
           /\ j \in published /\ tickStore[j].is_recurring
           /\ posts[j].scheduled_time = Iso(2026, 1, 2, 9, 0, 0)
           /\ k \notin attempted /\ ~tickStore[k].is_posted
           /\ tickStore[k].scheduled_time = Iso(2026, 1, 2, 22, 30, 0)
           /\ posts[k] = tickStore[k]

\* C6: a post whose scheduled_time is not a string or does not parse is
\* skipped: no publish is attempted for it, it keeps all its fields and stays
\* unposted, and the tick goes on to the end of its list, attempting every
\* due post in it.
C6_CorruptPostSkipped ==
    /\ attempted \cap CorruptInSnapshot = {}
    /\ ev.type \in {"skip_type", "skip_parse"} =>
           /\ ev.id \in CorruptInSnapshot
           /\ spc = "eval"
           /\ ev.id \in DOMAIN posts => posts[ev.id] = tickStore[ev.id]
    /\ ev.type = "tick_end" =>
           /\ qi = Len(snapshot) + 1
           /\ DueInSnapshot \subseteq attempted
           /\ \A i \in CorruptInSnapshot \cap DOMAIN posts :
                  posts[i] = tickStore[i] /\ ~posts[i].is_posted

\* a tick whose list starts with an unparsable row has skipped it and
\* published a due post listed after it
C6_Witness ==
    /\ ev.type = "tick_end"
    /\ \E k, j \in 1..Len(snapshot) :
           /\ k < j
           /\ snapshot[k].id \in CorruptInSnapshot
           /\ snapshot[k].id \in DOMAIN posts
           /\ ~posts[snapshot[k].id].is_posted
           /\ snapshot[j].id \in published

-----------------------------------------------------------------------------
(* Properties of the new-post wizard *)

\* the last event was a time confirmation (Confirm or a quick-pick slot) in a
\* new-post session that has a selected date
TimeConfirmed ==
    /\ ev.type \in {"time_confirm", "time_quick"}
    /\ ev.sess.has_post_data
    /\ ev.sess.selected_date # NoDate

\* the instant that confirmation asks for
Candidate == CombineDateTime(ev.sess.selected_date, ev.arg.h, ev.arg.mi)

\* the last event was 'no repeat' on the draft that skip content, skip photo,
\* a date and a time leave: content "", no photo, the time on the date
EmptyDraftNoRepeat ==
    /\ ev.type = "recurring_no"
    /\ ev.sess.has_post_data
    /\ ev.sess.state = "waiting_for_recurring"
    /\ ev.sess.content = ""
    /\ ev.sess.photo_data = "None"
    /\ ev.sess.selected_date # NoDate
    /\ \E t \in TimeInputs :
           /\ ev.sess.scheduled_time =
                  IsoFormat(CombineDateTime(ev.sess.selected_date, t[1], t[2]))
           /\ DtLess(now, CombineDateTime(ev.sess.selected_date, t[1], t[2]))

\* C7 as stated: skip content, skip photo, date D, time T and 'no repeat'
\* leave the store with exactly one new post: content "", no photo,
\* scheduled at D combined with T, not recurring, not posted.
C7_Original ==
    EmptyDraftNoRepeat =>
        \E i \in DOMAIN posts \ DOMAIN ev.before :
            /\ DOMAIN posts = DOMAIN ev.before \cup {i}
            /\ posts[i] = Row("", "None", "None", ev.sess.scheduled_time, FALSE, FALSE)

\* C7: skip content, skip photo, date D, time T and 'no repeat' store no post:
\* the last choice is answered with the 'must have either text content or a
\* photo' error, the store is as it was and the session keeps its draft in
\* the recurrence step.
C7_EmptyDraftRejected ==
    EmptyDraftNoRepeat =>
        /\ posts = ev.before
        /\ ~ev.ok
        /\ ev.reply = "error_empty_post"
        /\ user_states[ev.user] = ev.sess

C7_Witness ==
    /\ EmptyDraftNoRepeat
    /\ ev.reply = "error_empty_post"
    /\ ev.sess.selected_date = DateText(2026, 1, 3)
    /\ ev.sess.scheduled_time = Iso(2026, 1, 3, 22, 30, 0)
    /\ posts = NoStore

\* C8: every post the wizard stores has non-empty content or a photo when it
\* is created.
C8_CreatedPostNotEmpty ==
    /\ \A i \in DOMAIN posts : posts[i].content # "" \/ posts[i].photo_data # "None"
    /\ ev.reply = "post_created" =>
           /\ ev.sess.content \notin {"", "<absent>"} \/ ev.sess.photo_data # "None"
           /\ \E i \in DOMAIN posts \ DOMAIN ev.before :
                  posts[i].content # "" \/ posts[i].photo_data # "None"

\* a photo-only post has been created
C8_Witness ==
    /\ ev.reply = "post_created"
    /\ \E i \in DOMAIN posts \ DOMAIN ev.before :
           posts[i].content = "" /\ posts[i].photo_data = "img"

\* C9 as stated: a time confirmation whose candidate is not strictly later
\* than the current instant is rejected, leaving session and store as they were.
C9_Original ==
    (TimeConfirmed /\ ev.sess.state = "waiting_for_schedule" /\ ~DtLess(now, Candidate)) =>
        /\ ev.reply = "reject_past"
        /\ user_states[ev.user] = ev.sess
        /\ posts = ev.before

\* C9: a time confirmation whose candidate is strictly earlier than the
\* current instant is rejected: the session (step and draft) and the store
\* are as they were; a candidate that is not earlier, the current instant
\* itself included, is accepted at any later point of the session: it is
\* recorded and the session moves to the recurrence step.
C9_PastTimeRejected ==
    /\ (TimeConfirmed /\ DtLess(Candidate, now)) =>
           /\ ev.reply = "reject_past"
           /\ ~ev.ok
           /\ user_states[ev.user] = ev.sess
           /\ posts = ev.before
    /\ (TimeConfirmed /\ ~DtLess(Candidate, now)) =>
           /\ ev.reply = "ask_recurring"
           /\ user_states[ev.user] =
                  [ev.sess EXCEPT !.scheduled_time = IsoFormat(Candidate),
                                  !.state = "waiting_for_recurring"]
           /\ posts = ev.before

\* 09:00 on the selected day is refused at 23:30 of that day, in the
\* scheduling step of a session with a draft
C9_Witness ==
    /\ TimeConfirmed
    /\ ev.reply = "reject_past"
    /\ ev.sess.state = "waiting_for_schedule"
    /\ ev.sess.scheduled_time = NoText
    /\ Candidate.ord = now.ord
    /\ user_states[ev.user] = ev.sess

\* the last event recorded a scheduled instant on the draft
InstantRecorded ==
    /\ ev.type \in {"time_confirm", "time_quick", "time_quick_now"}
    /\ ev.reply = "ask_recurring"

\* C10 as stated: every recorded instant, the one 'Now' records included, is
\* the selected date combined with the chosen hour and minute.
C10_Original ==
    (/\ InstantRecorded
     /\ ev.sess.state = "waiting_for_schedule"
     /\ ev.sess.selected_date # NoDate) =>
        LET h == IF ev.type = "time_quick_now" THEN now.hour ELSE ev.arg.h
            mi == IF ev.type = "time_quick_now" THEN now.minute ELSE ev.arg.mi
            recorded == user_states[ev.user].scheduled_time
        IN  /\ Parseable(recorded)
            /\ FromIsoFormat(recorded) = CombineDateTime(ev.sess.selected_date, h, mi)
            /\ DateText(recorded.y, recorded.m, recorded.d) = ev.sess.selected_date

\* C10: the instant Confirm or a quick-pick slot records is the selected date
\* combined with the chosen hour and minute, so its date is the selected
\* date; the instant 'Now' records is the current instant, seconds included,
\* whatever date is selected.
C10_RecordedInstant ==
    InstantRecorded =>
        LET recorded == user_states[ev.user].scheduled_time IN
        /\ Parseable(recorded)
        /\ ev.type # "time_quick_now" =>
               /\ ev.sess.selected_date # NoDate
               /\ FromIsoFormat(recorded) = Candidate
               /\ DateText(recorded.y, recorded.m, recorded.d) = ev.sess.selected_date
               /\ recorded.hh = ev.arg.h /\ recorded.mm = ev.arg.mi /\ recorded.ss = 0
        /\ ev.type = "time_quick_now" => FromIsoFormat(recorded) = now

\* 'Now' pressed with the following day selected records today's instant
C10_Witness ==
    /\ InstantRecorded
    /\ ev.type = "time_quick_now"
    /\ ev.sess.selected_date = DateText(2026, 1, 3)
    /\ user_states[ev.user].scheduled_time = Iso(2026, 1, 2, 9, 0, 1)

-----------------------------------------------------------------------------
(* Properties of the wizard's steps *)

\* the step of the order Idle, AwaitingContent, AwaitingPhoto, AwaitingDate,
\* AwaitingTime, AwaitingRecurring a session is in
StepOf(sess) ==
    CASE sess.state = "waiting_for_content" -> 1
      [] sess.state = "waiting_for_photo" -> 2
      [] sess.state = "waiting_for_schedule" /\ sess.selected_date = NoDate -> 3
      [] sess.state = "waiting_for_schedule" -> 4
      [] sess.state = "waiting_for_recurring" -> 5
      [] OTHER -> 0

\* the step after the last event; Committed is 6
StepAfter == IF ev.reply = "post_created" THEN 6 ELSE StepOf(user_states[ev.user])

\* the last event reached a handler of a user's new-post session and was
\* neither a wizard start nor a Cancel
WizardStepEvent ==
    /\ ev.user \in Users
    /\ ev.sess.has_post_data
    /\ ev.reply \notin {"ask_content", "cancelled"}

\* C11: no event of a new-post session moves the step backwards or past the
\* next step: after the event the step is the one before it or the next one.
C11_StepsInOrder ==
    WizardStepEvent =>
        StepAfter \in {StepOf(ev.sess), StepOf(ev.sess) + 1}

\* the last event was a Cancel button pressed in a new-post session that
\* shows a widget
CancelPressed ==
    /\ ev.type \in {"cal_cancel", "time_cancel"}
    /\ ev.sess.has_post_data
    /\ ev.sess.state = "waiting_for_schedule"

\* C12 as stated: Cancel on the calendar and on the time picker destroys the
\* user's session and writes nothing to the store.
C12_Original ==
    CancelPressed =>
        /\ user_states[ev.user] = NoSession
        /\ posts = ev.before

\* C12: Cancel on the calendar destroys the user's session; Cancel on the time
\* picker draws the calendar again and leaves the session as it was, selected
\* date included; neither writes to the store.
C12_CancelEffect ==
    /\ (ev.type = "cal_cancel" /\ ev.sess.has_post_data) =>
           /\ user_states[ev.user] = NoSession
           /\ ev.reply = "cancelled"
           /\ posts = ev.before
    /\ (ev.type = "time_cancel" /\ ev.sess.has_post_data) =>
           /\ user_states[ev.user] = ev.sess
           /\ ev.reply = "calendar"
           /\ posts = ev.before

\* Cancel pressed on the time picker of a session with a draft and a date
C12_Witness ==
    /\ CancelPressed
    /\ ev.type = "time_cancel"
    /\ ev.sess.selected_date = DateText(2026, 1, 3)
    /\ ev.sess.content = "YES"
    /\ user_states[ev.user] = ev.sess

\* the last event called finish_add_post for a user's new-post session
CommitEvent ==
    /\ ev.sess.has_post_data
    /\ \/ ev.type \in {"recurring_yes", "recurring_no"}
       \/ ev.type = "message" /\ ev.sess.state = "waiting_for_recurring"

\* the draft of that session passes the content-or-photo validation
DraftValid == ev.sess.content \notin {"", "<absent>"} \/ ev.sess.photo_data # "None"

\* C13: a commit that passes validation adds exactly one post, carrying the
\* draft's content, photo, photo filename and scheduled instant, the chosen
\* recurring flag and posted = false, removes the user's session and changes
\* no other post.
C13_CommitAddsOnePost ==
    (CommitEvent /\ DraftValid) =>
        /\ user_states[ev.user] = NoSession
        /\ \A j \in DOMAIN ev.before : j \in DOMAIN posts /\ posts[j] = ev.before[j]
        /\ \E i \in DOMAIN posts \ DOMAIN ev.before :
               /\ DOMAIN posts = DOMAIN ev.before \cup {i}
               /\ posts[i].content =
                      (IF ev.sess.content = "<absent>" THEN "" ELSE ev.sess.content)
               /\ posts[i].photo_data = ev.sess.photo_data
               /\ posts[i].photo_filename = ev.sess.photo_filename
               /\ posts[i].scheduled_time = ev.sess.scheduled_time
               /\ ev.type = "recurring_yes" => posts[i].is_recurring
               /\ ev.type = "recurring_no" => ~posts[i].is_recurring
               /\ ~posts[i].is_posted

\* a user's session is in the recurrence step with neither content nor photo
Stuck(u) ==
    /\ user_states[u].has_post_data
    /\ user_states[u].state = "waiting_for_recurring"
    /\ user_states[u].content \in {"", "<absent>"}
    /\ user_states[u].photo_data = "None"

\* C14: a commit that fails validation in the recurrence step writes nothing
\* and keeps the session exactly as it was; from then on the session stays in
\* the recurrence step with its empty draft until it is cancelled or replaced
\* by a new wizard start, so every later recurrence choice fails the same way
\* and the session never commits.
C14_EmptyDraftNeverCommits ==
    /\ [](ev.reply = "error_empty_post" /\ ev.sess.state = "waiting_for_recurring" =>
              posts = ev.before /\ user_states[ev.user] = ev.sess)
    /\ [][\A u \in Users :
              Stuck(u) =>
                  /\ posts' = posts
                  /\ \/ user_states'[u] \in {NoSession, NewSession}
                     \/ /\ user_states'[u].state = "waiting_for_recurring"
                        /\ user_states'[u].content \in {"", "<absent>"}
                        /\ user_states'[u].photo_data = "None"]_vars

\* the last event was a wizard start by an authorized user in a private chat:
\* the 'add new' button or the text /add
WizardStart ==
    /\ ev.type = "add_new" \/ (ev.type = "message" /\ ev.arg.text = "/add")
    /\ ev.chat = "private"
    /\ ev.user \in authorized

\* C15 as stated: after any wizard start, whatever session the user had, the
\* user's session is a fresh one in waiting_for_content with an empty draft.
C15_Original == WizardStart => user_states[ev.user] = NewSession

\* C15: user_states holds one entry per user; the 'add new' button always
\* leaves the user with a fresh session in waiting_for_content with an empty
\* draft; the text /add does so only when the user has no session, and
\* otherwise is taken as the input of the session's current step and starts
\* no fresh session.
C15_WizardStartEffect ==
    /\ DOMAIN user_states = Users
    /\ (WizardStart /\ ev.type = "add_new") => user_states[ev.user] = NewSession
    /\ (WizardStart /\ ev.type = "message" /\ ev.sess = NoSession) =>
           user_states[ev.user] = NewSession
    /\ (WizardStart /\ ev.type = "message" /\ ev.sess # NoSession) =>
           /\ user_states[ev.user] # NewSession
           /\ ev.sess.state = "waiting_for_content" =>
                  user_states[ev.user] =
                      [ev.sess EXCEPT !.content = "/add", !.state = "waiting_for_photo"]
    /\ WizardStart => posts = ev.before \/ ev.reply = "post_created"

\* 'add new' pressed in the recurrence step of a session with a draft
C15_Witness ==
    /\ WizardStart
    /\ ev.type = "add_new"
    /\ ev.sess.state = "waiting_for_recurring"
    /\ ev.sess.content = "YES"
    /\ user_states[ev.user] = NewSession

-----------------------------------------------------------------------------
(* Properties of the calendar *)

\* C16: in every calendar a handler draws, each cell whose date is before
\* today is marked past and carries cal_ignore; a cal_ignore callback draws
\* nothing (the keyboard keeps its year, month and selected day) and changes
\* no session field and no post.
C16_PastCellsInert ==
    /\ ev.reply = "calendar" =>
           LET cal == CalendarOf(ev, now) IN
           \A day \in DOMAIN cal.days :
               Ordinal(cal.year, cal.month, day) < now.ord =>
                   /\ cal.days[day].mark = "past"
                   /\ cal.days[day].callback_data = "cal_ignore"
    /\ ev.type = "cal_ignore" =>
           /\ ev.reply = "none"
           /\ user_states[ev.user] = ev.sess
           /\ posts = ev.before

\* the calendar of January 2026 drawn on the 2nd with the 1st selected: the
\* 1st is a past cell
C16_Witness ==
    /\ ev.type = "cal_day"
    /\ ev.reply = "calendar"
    /\ ev.arg.y = 2026 /\ ev.arg.m = 1 /\ ev.arg.d = 1
    /\ now.ord = Ordinal(2026, 1, 2)
    /\ CalendarOf(ev, now).days[1].mark = "past"
    /\ CalendarOf(ev, now).days[2].mark = "available"

\* C17: a month navigation or a day selection on the calendar changes no
\* session and nothing in the store, and a session's selected date gets a new
\* value only in the step that handles that user's calendar Confirm.
C17_NavAndDayChangeNothing ==
    [][/\ ev'.type \in {"cal_nav", "cal_day"} =>
              UNCHANGED <<user_states, posts, nextId>>
       /\ \A u \in Users :
              (/\ user_states'[u].selected_date # NoDate
               /\ user_states'[u].selected_date # user_states[u].selected_date) =>
                  (ev'.type = "cal_confirm" /\ ev'.user = u)]_vars

\* a day is selected on the calendar of a draft that has no date yet, and
\* the draft still has none
C17_Witness ==
    /\ ev.type = "cal_day"
    /\ ev.reply = "calendar"
    /\ ev.sess.state = "waiting_for_schedule"
    /\ ev.sess.selected_date = NoDate
    /\ user_states[ev.user].selected_date = NoDate
    /\ CalendarOf(ev, now).days[ev.arg.d].mark = "selected"

-----------------------------------------------------------------------------
(* Authorization *)

\* the last update was served: it listed the stored posts, deleted a post,
\* or started or advanced a draft
Served ==
    \/ ev.reply = "posts_list" /\ posts # NoStore
    \/ posts # ev.before
    \/ /\ user_states[ev.user].has_post_data
       /\ user_states[ev.user] # ev.sess

\* C18: an update that starts or advances a draft, lists the posts or
\* deletes a post is served only for a user the authorization check accepts;
\* this holds for the calendar, time picker, skip and recurrence buttons too.
C18_ServedOnlyWhenAuthorized ==
    (ev.user \in Users /\ Served) => ev.user \in authorized

-----------------------------------------------------------------------------
(* Threads *)

\* the updates the foreground loop handles
ForegroundUpdates ==
    {"message", "add_new", "delete", "confirm_delete", "cancel_delete",
     "recurring_yes", "recurring_no", "skip_text", "skip_photo", "cal_nav",
     "cal_ignore", "cal_day", "cal_confirm", "cal_cancel", "time_quick",
     "time_confirm", "time_quick_now", "time_cancel"}

\* C19: no step of the scheduler thread and no step of a list-refresh timer
\* creates, changes or removes a session; every step that changes the
\* sessions is the foreground loop handling an update.
C19_ThreadsLeaveSessions ==
    [][/\ (SchedulerStep \/ TimerFire) => user_states' = user_states
       /\ user_states' # user_states => ev'.type \in ForegroundUpdates]_vars

\* the refresh timer of a delete runs while its user is writing a draft
C19_Witness ==
    /\ ev.type = "list_refresh"
    /\ ev.reply = "posts_list"
    /\ ev.sess.has_post_data
    /\ user_states[ev.user] = ev.sess
    /\ spc \in {"eval", "send", "writeback"}

\* stop_scheduler has been called
StopRequested == ~scheduler_running /\ spc # "none"

\* C20 (its two safety parts): a publish that is in flight when the stop is
\* requested is not cut off before its write-back, and once the stop is
\* requested no tick starts.
C20_StopIsGraceful ==
    [][/\ (ev.type = "stop_scheduler" /\ spc \in {"send", "writeback"}) =>
              spc' # "killed"
       /\ (StopRequested /\ spc = "tick") => spc' # "eval"]_vars

-----------------------------------------------------------------------------
(* Crash between publish and write-back *)

\* C21: when the process dies after a send returned ok and before the
\* write-back, the post stays in the table unposted with the scheduled time
\* it was sent with, and after the restart the scheduler sends that same row
\* again.
C21_LostWriteBackRepublished ==
    /\ [](\A row \in lost :
             /\ row.id \in DOMAIN posts
             /\ PostDict(posts, row.id) = row)
    /\ (ev.type = "crash") ~> (ev.type = "publish" /\ ev.post \in lost)

\* the row a crash left unposted has been sent a second time, with success
C21_Witness ==
    /\ ev.type = "publish"
    /\ ev.ok
    /\ ev.post \in lost
    /\ spc = "writeback"
    /\ PostDict(posts, ev.id) = ev.post

-----------------------------------------------------------------------------
(* Posted posts *)

\* post id is stored, non-recurring and marked posted
Terminal(store, id) ==
    id \in DOMAIN store /\ store[id].is_posted /\ ~store[id].is_recurring

\* C22: a non-recurring post that is marked posted is in every list that
\* includes posted posts and in no list of unposted posts, is not among the
\* rows a tick still has to evaluate or is publishing, and as long as it is
\* stored it stays posted.
C22_PostedIsTerminal ==
    /\ [](\A id \in DOMAIN posts : Terminal(posts, id) =>
             /\ \A q \in GetPosts(posts, TRUE) : \E k \in 1..Len(q) : q[k].id = id
             /\ \A q \in GetPosts(posts, FALSE) : \A k \in 1..Len(q) : q[k].id # id
             /\ spc \in {"eval", "send", "writeback"} =>
                    \A k \in qi..Len(snapshot) : snapshot[k].id # id)
    /\ [][\A id \in DOMAIN posts :
              (Terminal(posts, id) /\ id \in DOMAIN posts') => Terminal(posts', id)]_vars

\* a tick starts after the scheduler has marked the 09:00 post as posted,
\* and its list does not hold that post
C22_Witness ==
    /\ ev.type = "tick_start"
    /\ \E id \in DOMAIN posts :
           /\ Terminal(posts, id)
           /\ posts[id].scheduled_time = Iso(2026, 1, 2, 9, 0, 0)
           /\ \A k \in 1..Len(snapshot) : snapshot[k].id # id
    /\ Len(snapshot) > 0

-----------------------------------------------------------------------------
(* Order of a tick *)

\* the scheduler thread is inside a tick
InTick == spc \in {"eval", "send", "writeback"}

\* the instant of a row of the tick's list can be read
HasInstant(post) == IsStr(post.scheduled_time) /\ Parseable(post.scheduled_time)

\* C23: the list a tick works on is in ascending order of scheduled instant;
\* the tick goes through it from the first row to the last, one row at a
\* time, and when it turns to a row, every earlier row it published has its
\* write-back in the table.
C23_TickInOrder ==
    /\ [](InTick =>
             /\ \A i, j \in 1..Len(snapshot) :
                    (i < j /\ HasInstant(snapshot[i]) /\ HasInstant(snapshot[j])) =>
                        DtLeq(FromIsoFormat(snapshot[i].scheduled_time),
                              FromIsoFormat(snapshot[j].scheduled_time))
             /\ \A k \in 1..(qi - 1) :
                    (snapshot[k].id \in published /\ snapshot[k].id \in DOMAIN posts) =>
                        posts[snapshot[k].id] =
                            WriteBack(tickStore, snapshot[k])[snapshot[k].id])
    /\ [][(InTick /\ spc' \in {"eval", "send", "writeback"}) =>
              /\ snapshot' = snapshot
              /\ qi' \in {qi, qi + 1}
              /\ (qi' = qi + 1) => spc' = "eval"]_vars

\* the tick turns to its second row after it published the first, earlier
\* one and wrote it back
C23_Witness ==
    /\ ev.type = "due"
    /\ qi = 2
    /\ spc = "send"
    /\ snapshot[1].id \in published
    /\ snapshot[1].id \in DOMAIN posts
    /\ posts[snapshot[1].id] # tickStore[snapshot[1].id]
    /\ DtLess(FromIsoFormat(snapshot[1].scheduled_time),
              FromIsoFormat(snapshot[2].scheduled_time))

-----------------------------------------------------------------------------
(* Removal of posts *)

\* C24: a step takes a post out of the table only when it is the foreground
\* loop handling a confirmed delete, and then only the post the delete
\* names; no step of the scheduler or of the wizard removes a post.
C24_OnlyDeleteRemoves ==
    [][\/ DOMAIN posts \subseteq DOMAIN posts'
       \/ /\ ev'.type = "confirm_delete"
          /\ ev'.reply = "deleted"
          /\ DOMAIN posts' = DOMAIN posts \ {ev'.id}]_vars

\* the wizard stores a post in the middle of a tick that has published a
\* post and written it back, and every post is still in the table
C24_Witness ==
    /\ ev.reply = "post_created"
    /\ nextId = MaxInitPosts + 1
    /\ DOMAIN posts = 1..MaxInitPosts
    /\ \E id \in DOMAIN tickStore : id \in published /\ posts[id] # tickStore[id]
    /\ spc \in {"eval", "send", "writeback"}

-----------------------------------------------------------------------------
(* C25 *)

\* the 22 quick-pick slots, 08:00 to 22:30, as the time picker lists them
ListedSlots ==
    { <<8, 0>>, <<8, 30>>, <<9, 0>>, <<9, 30>>, <<10, 0>>, <<10, 30>>, <<11, 0>>, <<11, 30>>,
      <<12, 0>>, <<12, 30>>, <<14, 0>>, <<14, 30>>, <<16, 0>>, <<16, 30>>, <<18, 0>>, <<18, 30>>,
      <<20, 0>>, <<20, 30>>, <<21, 0>>, <<21, 30>>, <<22, 0>>, <<22, 30>> }

\* the generated keyboard has a row of fine-adjust buttons
HasAdjustRow(kb) ==
    \E i \in 1..Len(kb) : \E j \in 1..Len(kb[i]) :
        kb[i][j].cb \in {"time_hour_dec", "time_hour_inc", "time_min_dec", "time_min_inc"}

\* C25: for every hour 0..23 and minute 0..59 the generated time picker has
\* the fine-adjust row exactly when (hour, minute) is none of the 22 quick-pick
\* slots, and those slots are the quick buttons the picker shows
C25_AdjustRowIffNotQuickSlot ==
    keyboard # NoKeyboard =>
        /\ HasAdjustRow(keyboard) <=> picker_args \notin ListedSlots
        /\ {<<keyboard[i][j].hour, keyboard[i][j].minute>> :
                <<i, j>> \in {p \in (1..Len(keyboard)) \X (1..4) :
                    /\ p[2] <= Len(keyboard[p[1]])
                    /\ keyboard[p[1]][p[2]].cb = "time_quick"}} = ListedSlots

\* a picker generated for a position that shares its hour with a quick slot but
\* not its minute, and so has the adjust row
C25_Witness ==
    /\ keyboard # NoKeyboard
    /\ picker_args = <<9, 15>>
    /\ HasAdjustRow(keyboard)
    /\ Len(keyboard) = 9

-----------------------------------------------------------------------------
(* C26 *)

\* the session of the user of the last event holds a timestamp that parses
\* back to instant t
SessionHolds(t) ==
    LET s == user_states[ev.user].scheduled_time
    IN  Parseable(s) /\ FromIsoFormat(s) = t

\* C26: on a database this program created, after any wizard commits and
\* scheduler write-backs every stored scheduled time parses as a timestamp,
\* and each value written (by Confirm and the quick picks, by Now, by the commit
\* of the draft, by the reschedule of a recurring post) parses back to the
\* instant that was written
C26_WrittenTimesParseBack ==
    /\ \A id \in DOMAIN posts : Parseable(posts[id].scheduled_time)
    /\ (ev.type \in {"time_quick", "time_confirm"} /\ ev.reply = "ask_recurring")
          => SessionHolds([ord |-> Ordinal(ev.sess.selected_date.y, ev.sess.selected_date.m, ev.sess.selected_date.d),
                           hour |-> ev.arg.h, minute |-> ev.arg.mi, sub |-> 0])
    /\ (ev.type = "time_quick_now" /\ ev.reply = "ask_recurring") => SessionHolds(now)
    /\ ev.reply = "post_created"
          => posts[nextId - 1].scheduled_time = ev.sess.scheduled_time
    /\ (ev.type = "writeback" /\ ev.post.is_recurring /\ ev.id \in DOMAIN posts)
          => /\ Parseable(ev.post.scheduled_time)
             /\ FromIsoFormat(posts[ev.id].scheduled_time)
                    = GetNextWeekday(FromIsoFormat(ev.post.scheduled_time))

\* a recurring post that the wizard stored with Now at a clock reading with a
\* fraction of a second has been published and rescheduled
C26_Witness ==
    /\ ev.type = "writeback"
    /\ ev.post.is_recurring
    /\ ev.post.scheduled_time.ss # 0
    /\ ev.id \in DOMAIN posts
    /\ posts[ev.id].scheduled_time # ev.post.scheduled_time
    /\ ev.before = (ev.id :> Row("news", "None", "None", ev.post.scheduled_time, TRUE, FALSE))

-----------------------------------------------------------------------------
(* C27 *)

\* C27: a message, text or photo, that arrives while the new-post session is
\* at the date or the time step is answered with the prompt to use the buttons
\* and changes neither the step, nor the draft, nor the store
C27_ScheduleStepIgnoresMessages ==
    (ev.type = "message" /\ ev.sess.state = "waiting_for_schedule")
        => /\ ev.reply = "use_calendar"
           /\ user_states[ev.user] = ev.sess
           /\ posts = ev.before

\* a text typed at the time step (the date is chosen) of a draft with content
C27_Witness ==
    /\ ev.type = "message"
    /\ ev.arg.text = "YES"
    /\ ev.sess.state = "waiting_for_schedule"
    /\ ev.sess.selected_date # NoDate
    /\ ev.sess.content = "/list"
    /\ ev.reply = "use_calendar"

-----------------------------------------------------------------------------
(* C28 *)

\* the typed texts that are yes, y, daily or repeat once trimmed and lower-cased
SaysRecurring(text) == text \in {"YES", "y", " Daily", "repeat "}

\* the last event was a commit attempt with flag f on the draft of the session:
\* the post is stored with that flag, or the empty draft was refused
CommitAttempted(f) ==
    \/ /\ ev.reply = "post_created"
       /\ DOMAIN posts = DOMAIN ev.before \cup {nextId - 1}
       /\ nextId - 1 \notin DOMAIN ev.before
       /\ posts[nextId - 1].is_recurring = f
       /\ posts[nextId - 1].scheduled_time = ev.sess.scheduled_time
       /\ user_states[ev.user] = NoSession
    \/ /\ ev.reply = "error_empty_post"
       /\ ev.sess.content \in {"", "<absent>"}
       /\ ev.sess.photo_data = "None"
       /\ posts = ev.before

\* C28: at the recurrence step every text message attempts the commit, as
\* recurring exactly when its trimmed lower-cased text is yes, y, daily or
\* repeat and as non-recurring for any other text; the yes and no buttons
\* attempt it with recurring true and false
C28_RecurrenceAnswerCommits ==
    /\ (ev.type = "message" /\ ev.sess.state = "waiting_for_recurring")
          => CommitAttempted(SaysRecurring(ev.arg.text))
    /\ (ev.type = "recurring_yes" /\ ev.sess.state = "waiting_for_recurring")
          => CommitAttempted(TRUE)
    /\ (ev.type = "recurring_no" /\ ev.sess.state = "waiting_for_recurring")
          => CommitAttempted(FALSE)

\* ' Daily', typed with a leading blank and a capital, has committed a
\* recurring post
C28_Witness ==
    /\ ev.type = "message"
    /\ ev.arg.text = " Daily"
    /\ ev.sess.state = "waiting_for_recurring"
    /\ ev.reply = "post_created"
    /\ posts[nextId - 1].is_recurring

-----------------------------------------------------------------------------
(* C29 *)

\* C29: an exception that escapes a whole iteration of the scheduler loop (the
\* query for the unposted posts raising) does not end the loop: unless a stop
\* is requested, the loop enters another iteration after the error backoff
C29_FaultDoesNotEndLoop ==
    (ev.type = "sched_error") ~> (spc = "tick" \/ ~scheduler_running)

\* the loop test after the error backoff has passed and the next iteration
\* is about to run, no stop having been requested
C29_Witness ==
    /\ ev.type = "loop_test"
    /\ ev.reply = "after_error"
    /\ spc = "tick"
    /\ scheduler_running

-----------------------------------------------------------------------------
(* C30 *)

\* the row has a photo / a text, in the sense of Python truthiness
HasPhoto(post) == post.photo_data # "None"
HasContent(post) == post.content # ""

\* C30: a publish attempt sends the photo with the content as caption when the
\* post has both, the photo with an empty caption when it has only a photo,
\* and a text message otherwise; each attempt makes exactly one delivery call:
\* a call is made only at the send step of a due post, and it ends that step
C30_OneDeliveryByKind ==
    /\ [](ev.type = "publish" =>
            /\ (HasPhoto(ev.post) /\ HasContent(ev.post)) => ev.reply = "photo_caption"
            /\ (HasPhoto(ev.post) /\ ~HasContent(ev.post)) => ev.reply = "photo_only"
            /\ ~HasPhoto(ev.post) => ev.reply = "text_only")
    /\ [][/\ (ev'.type = "publish" /\ ev' # ev) => (spc = "send" /\ spc' # "send")
          /\ (spc = "send" /\ spc' # "send") => (ev'.type = "publish" /\ ev'.post = snapshot[qi])]_vars

\* a post with a photo and no text has been delivered as a photo without
\* caption
C30_Witness ==
    /\ ev.type = "publish"
    /\ ev.ok
    /\ HasPhoto(ev.post)
    /\ ~HasContent(ev.post)
    /\ ev.reply = "photo_only"
    /\ spc = "writeback"

-----------------------------------------------------------------------------
(* C31 *)

-----------------------------------------------------------------------------
(* C32 *)

\* the last event changed neither the store nor any session
NothingChanged ==
    /\ posts = ev.before
    /\ user_states = [u \in Users |-> IF u = ev.user THEN ev.sess ELSE NoSession]

\* C32: the store loses a post only when a confirm-delete is processed for an
\* id that exists; a delete request only shows the confirmation prompt, a
\* cancel-delete leaves the store unchanged, and a delete request or a
\* confirm-delete for an id that does not exist any more reports the failure
\* and changes nothing in the store or in any session
C32_DeleteOnlyOnConfirm ==
    /\ ev.type # "init" =>
          \/ DOMAIN ev.before \subseteq DOMAIN posts
          \/ /\ ev.type = "confirm_delete"
             /\ ev.id \in DOMAIN ev.before
             /\ DOMAIN posts = DOMAIN ev.before \ {ev.id}
             /\ \A id \in DOMAIN posts : posts[id] = ev.before[id]
    /\ (ev.type = "delete" /\ ev.id \in DOMAIN ev.before)
          => (ev.reply = "confirm_prompt" /\ NothingChanged)
    /\ (ev.type = "delete" /\ ev.id \notin DOMAIN ev.before)
          => (ev.reply = "not_found" /\ NothingChanged)
    /\ ev.type = "cancel_delete" => posts = ev.before
    /\ (ev.type = "confirm_delete" /\ ev.id \in DOMAIN ev.before)
          => (ev.reply = "deleted" /\ ev.id \notin DOMAIN posts)
    /\ (ev.type = "confirm_delete" /\ ev.id \notin DOMAIN ev.before)
          => (ev.reply = "delete_failed" /\ NothingChanged)

\* the confirm button of post 1 pressed once more after post 1 was deleted,
\* by a user with a draft open, while post 2 is still stored
C32_Witness ==
    /\ ev.type = "confirm_delete"
    /\ ev.id = 1
    /\ ev.reply = "delete_failed"
    /\ ev.sess.state = "waiting_for_photo"
    /\ user_states["u1"] = ev.sess
    /\ DOMAIN posts = {2}
    /\ timers # {}

-----------------------------------------------------------------------------
(* C33 *)

\* the instant of slot (h, mi) of the last event on the session's selected date
ChosenInstant ==
    [ord |-> Ordinal(ev.sess.selected_date.y, ev.sess.selected_date.m, ev.sess.selected_date.d),
     hour |-> ev.arg.h, minute |-> ev.arg.mi, sub |-> 0]

\* what choosing a time does to a session that is picking one: a time in the
\* past is rejected and nothing changes, any other time is recorded and the
\* session moves to the recurrence step; the store is never touched
TimeChoiceEffect ==
    /\ posts = ev.before
    /\ IF ev.sess = NoSession \/ ~ev.sess.has_post_data
       THEN user_states[ev.user] = ev.sess
       ELSE IF ev.sess.selected_date = NoDate
       THEN ev.reply = "error_no_date" /\ user_states[ev.user] = ev.sess
       ELSE IF DtLess(ChosenInstant, now)
       THEN ev.reply = "reject_past" /\ user_states[ev.user] = ev.sess
       ELSE /\ ev.reply = "ask_recurring"
            /\ user_states[ev.user] =
                  [ev.sess EXCEPT !.state = "waiting_for_recurring",
                                  !.scheduled_time = user_states[ev.user].scheduled_time]
            /\ Parseable(user_states[ev.user].scheduled_time)
            /\ FromIsoFormat(user_states[ev.user].scheduled_time) = ChosenInstant

\* C33: a quick-pick slot (h, m) has the effect on the session and the store
\* that Confirm has with the picker at (h, m): the same rejection of a past
\* time, the same recorded instant, the same move to the recurrence step
C33_QuickPickIsConfirm ==
    /\ ev.type = "time_quick" => TimeChoiceEffect
    /\ ev.type = "time_confirm" => TimeChoiceEffect

\* the quick slot 22:30 has been taken on a day chosen before, and the session
\* is at the recurrence step with that instant
C33_Witness ==
    /\ ev.type = "time_quick"
    /\ ev.arg.h = 22 /\ ev.arg.mi = 30
    /\ ev.sess.state = "waiting_for_schedule"
    /\ ev.sess.selected_date = DateText(2026, 1, 2)
    /\ ev.reply = "ask_recurring"
    /\ user_states[ev.user].state = "waiting_for_recurring"
    /\ user_states[ev.user].scheduled_time = IsoFormat(ChosenInstant)

-----------------------------------------------------------------------------
(* C34 *)

\* the last event is the write-back of a published recurring post that is
\* still stored
RecurringWrittenBack ==
    /\ ev.type = "writeback"
    /\ ev.post.is_recurring
    /\ ev.id \in DOMAIN posts

\* C34 as stated: after a successful publish of a recurring post its new
\* scheduled instant is strictly later than the instant of that publish (which
\* is not before the tick's reading of the clock), so it is not due again
C34_NextOccurrenceAfterPublish ==
    RecurringWrittenBack
        => DtLess(tickNow, FromIsoFormat(posts[ev.id].scheduled_time))

\* C34, amended: after a successful publish of a recurring post its new
\* scheduled instant is a weekday strictly later than the scheduled instant
\* that was published, not necessarily later than the publish; every
\* successful publish of a recurring post is of the instant the store holds
\* for it, so each scheduled occurrence is published at most once
C34_NextOccurrenceAfterScheduled ==
    /\ [](RecurringWrittenBack =>
            /\ DtLess(FromIsoFormat(ev.post.scheduled_time),
                      FromIsoFormat(posts[ev.id].scheduled_time))
            /\ Weekday(FromIsoFormat(posts[ev.id].scheduled_time)) < 5
            /\ ~posts[ev.id].is_posted)
    /\ [][(ev'.type = "publish" /\ ev' # ev /\ ev'.ok /\ ev'.post.is_recurring
             /\ ev'.id \in DOMAIN posts)
            => posts[ev'.id].scheduled_time = ev'.post.scheduled_time]_vars

\* an overdue recurring post has been published and written back, and its new
\* scheduled instant is not after the tick's reading of the clock: it is due
\* again at the next tick
C34_Witness ==
    /\ RecurringWrittenBack
    /\ DtLess(FromIsoFormat(ev.post.scheduled_time), FromIsoFormat(posts[ev.id].scheduled_time))
    /\ DtLeq(FromIsoFormat(posts[ev.id].scheduled_time), tickNow)

-----------------------------------------------------------------------------
(* C35 *)

\* the loop threads that are inside a tick
TickingLoops ==
    (IF InTickAt(spc) THEN 1 ELSE 0)
        + Cardinality({i \in 1..Len(old_loops) : InTickAt(old_loops[i])})

\* C35: for every sequence of start_scheduler and stop_scheduler calls at most
\* one scheduler loop is executing ticks at any time; in particular the loop
\* of a start issued after a stop never runs alongside the loop that was
\* stopped, which never begins another tick
C35_AtMostOneLoop ==
    /\ TickingLoops <= 1
    /\ ev.type = "old_loop_test" => ~ev.ok

-----------------------------------------------------------------------------
(* C36 *)

\* C36: under every interleaving of the foreground loop and the scheduler,
\* once a confirm-delete of a post has completed the post is never published
\* afterwards (every successful publish is of a post in the store) and never
\* reappears in the store (a write-back for a deleted id changes nothing)
C36_DeletedNeverPublished ==
    /\ (ev.type = "publish" /\ ev.ok) => ev.id \in DOMAIN posts
    /\ (ev.type = "writeback" /\ ev.id \notin DOMAIN ev.before) => posts = ev.before

-----------------------------------------------------------------------------
(* C37 *)

\* C37: the sessions of different users are independent: a message or a button
\* interaction of one user leaves the session of every other user (whether it
\* exists, its step, its draft) as it was
C37_SessionsIndependent ==
    [][\A v \in Users : ev'.user = v \/ user_states'[v] = user_states[v]]_vars

\* the second user has just confirmed a date on a draft of their own while
\* the first user's draft waits at the photo step
C37_Witness ==
    /\ ev.user = "u2"
    /\ ev.type = "cal_confirm"
    /\ user_states["u2"] # ev.sess
    /\ user_states["u2"].selected_date # NoDate
    /\ user_states["u1"].state = "waiting_for_photo"
    /\ user_states["u1"].content = "news"

-----------------------------------------------------------------------------
(* C38 *)

\* C38: with a single scheduler loop, no crash and store writes that succeed,
\* a non-recurring post is published successfully at most once over its whole
\* lifetime, whatever wizard commits and deletes are interleaved: no successful
\* send is of a one-time post that was sent successfully before
C38_OneTimePostSentOnce ==
    [][(ev'.type = "publish" /\ ev' # ev /\ ev'.ok /\ ~ev'.post.is_recurring)
          => ev'.id \notin sent]_vars

\* a tick has ended without publishing anything while a one-time post that an
\* earlier tick published is still in the store, next to a post of the wizard
C38_Witness ==
    /\ ev.type = "tick_end"
    /\ published = {}
    /\ \E id \in sent : id \in DOMAIN posts /\ posts[id].is_posted
    /\ nextId = MaxInitPosts + 1

-----------------------------------------------------------------------------
(* C39 *)

\* C39: a user who was never authorized never gets a draft session, never
\* advances one and never writes to the store: whatever update they send,
\* the buttons exempt from the authorization check included, their session is
\* absent or the password prompt's, and the store and the next id are as before
C39_NeverAuthorizedCreatesNothing ==
    /\ [](Unauthorized("u2") => user_states["u2"] \in {NoSession, PasswordSession})
    /\ []((ev.user = "u2" /\ Unauthorized("u2")) => posts = ev.before)
    /\ [][(Unauthorized("u2")' /\ ev'.user = "u2")
             => posts' = posts /\ nextId' = nextId]_vars

\* the user, asked for the password in a private chat, has pressed the
\* recurrence button of somebody's wizard message
C39_Witness ==
    /\ ev.user = "u2"
    /\ ev.type = "recurring_yes"
    /\ ev.chat = "private"
    /\ ev.sess = PasswordSession
    /\ Unauthorized("u2")
    /\ posts # NoStore

-----------------------------------------------------------------------------
(* C40 *)

\* C40: the date recorded on a draft is never before the day on which it was
\* confirmed: a day selection that is served draws a Confirm button, and a
\* confirm records a date, only for a day that is today or later, also when
\* the button pressed belongs to a calendar drawn on an earlier day
C40_NoPastDateOfferedOrRecorded ==
    /\ (ev.type = "cal_day" /\ ev.reply = "calendar" /\ CalendarOf(ev, now).confirm)
           => Ordinal(ev.arg.y, ev.arg.m, ev.arg.d) >= now.ord
    /\ (ev.type = "cal_confirm" /\ ev.reply = "time_picker")
           => /\ user_states[ev.user].selected_date
                     = DateText(ev.arg.y, ev.arg.m, ev.arg.d)
              /\ Ordinal(ev.arg.y, ev.arg.m, ev.arg.d) >= now.ord

====
